---- MODULE Spec2Model ----
(***************************************************************************)
(* The reactive runtime of packages/core: cells (createSignal), tracked    *)
(* computations (createEffect, createMemo), the microtask scheduler        *)
(* (internal/scheduler), the ownership scopes (createRoot, onCleanup,      *)
(* provide, inject), resources (createResource) and the keyed list         *)
(* component For with its LIS helper.                                      *)
(*                                                                         *)
(* JavaScript runs every call to completion, so one action is one call     *)
(* made by external code (createRoot, createEffect, a cell write, a        *)
(* disposer) or one microtask (the flush).  The functions of the source    *)
(* are operators over a record holding the program's state; user-supplied  *)
(* functions (effect bodies, root bodies, cleanups) are small programs     *)
(* taken from the table Body.                                              *)
(***************************************************************************)
EXTENDS Integers, Sequences, FiniteSets, TLC

VARIABLES
  value,          \* signal.ts: the closure variable `value` of each cell
  subscribers,    \* signal.ts: the Set `subscribers` of each cell, in insertion order
  effects,        \* effect.ts: the Subscriber objects created so far
  effectStack,    \* scheduler: effectStack
  dirtyEffects,   \* scheduler: dirtyEffects, a Set in insertion order
  isBatching,     \* scheduler: isBatching (true = a flush microtask is queued)
  currentOwner,   \* lifecycle.ts: currentOwner (0 = null)
  owners,         \* lifecycle.ts: the Owner objects created so far (held: external
                  \* code holds the disposer createRoot returned; contexts: the Map)
  cleanups,       \* the disposer closures registered through onCleanup
  thrown,         \* whether the last call ended by throwing to its caller
  runLog,         \* history: the effects whose body ran during the last call
  cleanupLog,     \* history: the registered disposers invoked during the last call
  disposed,       \* history: the effects whose disposer has returned
  disposedRoots,  \* history: the scopes whose disposer has returned normally
  ranDisposed,    \* history: the effects whose body ran after their disposer returned
  owed,           \* history: subscribers of a cell written in the last flush, not run since
  marked,         \* history: the arguments of dirtyEffects.add in the current batch
  fetches,        \* resource.ts: the calls of the fetcher made by executeFetch
  settled,        \* history: the fetcher calls that have settled, in settlement order
  flushed,        \* history: whether a flush has run
  failed,         \* history: the effects whose body threw during the last call
  injected,       \* history: the inject calls of the last call, with their results
  lastCall,       \* history: the last call made
  calls,          \* the number of calls made so far (external calls and microtasks)
  wedge,          \* history: phase "threw" after a flush that threw, "wrote" after the
                  \* next value-changing write (with the cell written), "recovered"
                  \* after the flush that follows it
  dom,            \* For: the child nodes of endMarker.parentNode, in document order
  mappedItems,    \* For: the Map mappedItems, as its entries in insertion order
  domError,       \* For: whether a DOM call of the last update cycle threw
  items,          \* history: the array the last update cycle of For read from `each`
  change,         \* history: whether the last update cycle replaced items, moved items
  roots,          \* For: the roots createRoot made for the items, while reachable
  cycle,          \* history: what the last update cycle of a keyed For did
  config,         \* internal/lis: config
  input,          \* the array a program passes to longestIncreasingSubsequence
  results,        \* history: what lis_small and lis_large returned for input
  scratch,        \* the Uint32Array a program passes as workBuffer, with its contents
  promise,        \* lisAsync: the promise longestIncreasingSubsequenceAsync returned
  worker,         \* lisAsync: the worker ("none", "running", "terminated")
  timeout,        \* lisAsync: the timer ("none", "armed", "cleared", "fired")
  request,        \* lis.worker: the message posted to the worker ("none", "posted", "done")
  inbox,          \* the events queued for the handlers worker.onmessage / worker.onerror
  first           \* history: the path that settled the promise, and what it settled it with

forVars == <<dom, mappedItems, domError, items, change, roots, cycle>>

lisVars == <<config, input, results, scratch>>
asyncVars == <<promise, worker, timeout, request, inbox, first>>

vars == <<value, subscribers, effects, effectStack, dirtyEffects, isBatching,
          currentOwner, owners, cleanups, thrown, runLog, cleanupLog,
          disposed, disposedRoots, ranDisposed, owed, marked, fetches, settled,
          flushed, failed, injected, lastCall, calls, wedge, forVars, lisVars,
          asyncVars>>

(***************************************************************************)
(* Bounds of the model.                                                    *)
(***************************************************************************)
MaxVal == 1
MaxEffects == 5
MaxOwners == 2
MaxCalls == 4
MaxFetches == 3
MaxSteps == 8
MaxKeys == 4
MaxItems == 3
MaxDupKeys == 2
MaxDupLen == 3
MaxRoots == 4
MaxLen == 4
MaxNum == 2

Undefined == -1

\* internal/lis: the default of config.smallArrayThreshold
DefaultThreshold == 64

Cells == {"a", "b", "g", "m", "src", "data", "loading", "error", "dm", "lm", "em"}
SourceCells == {"a", "b", "g"}
Val == 0..MaxVal

\* The resource's cells: loading holds a boolean, written 1 (true) or 0.
InitialValue(c) ==
  CASE c \in {"m", "data", "error", "dm", "lm", "em"} -> Undefined
    [] c = "loading" -> 1
    [] OTHER -> 0

\* What the fetcher's promise fulfils with, or rejects with, for a source value.
Result(sourceValue) == 10 + sourceValue
Reason(sourceValue) == 20 + sourceValue

\* How a call of the fetcher ends: it throws, or it returns a promise.
FetcherKinds == {"throw", "pending"}
Outcomes == {"fulfilled", "rejected"}

(***************************************************************************)
(* User-supplied functions.  An op is a tuple: read c (acc := c()),        *)
(* if c then ops else ops, inc (acc := acc + 1), set c (c's setter on      *)
(* acc), effect b, memo b, root b, onCleanup b, throw, throwIf (throw when  *)
(* acc is not 0), put c v (c's setter on v), executeFetch, resource,        *)
(* tryRoot b (createRoot in try/catch), disposeLast, provide x v, inject x.*)
(***************************************************************************)
Body(b) ==
  CASE b = "count"       -> << <<"read", "a">> >>
    [] b = "conditional" -> << <<"if", "g", << <<"read", "a">> >>, << <<"read", "b">> >> >> >>
    [] b = "outer"       -> << <<"read", "a">>, <<"effect", "inner">> >>
    [] b = "inner"       -> << <<"read", "b">> >>
    [] b = "succ"        -> << <<"read", "a">>, <<"inc">>, <<"set", "m">> >>
    [] b = "forward"     -> << <<"read", "b">>, <<"inc">>, <<"set", "a">> >>
    [] b = "picky"       -> << <<"read", "a">>, <<"throwIf">> >>
    [] b = "noop"        -> << >>
    [] b = "fail"        -> << <<"throw">> >>
    [] b = "app"         -> << <<"onCleanup", "noop">>, <<"effect", "outer">>, <<"root", "child">> >>
    [] b = "child"       -> << <<"onCleanup", "noop">>, <<"effect", "inner">> >>
    [] b = "derive"      -> << <<"memo", "succ">>, <<"effect", "forward">> >>
    [] b = "cond"        -> << <<"effect", "conditional">> >>
    [] b = "risky"       -> << <<"effect", "picky">> >>
    [] b = "tidy"        -> << <<"onCleanup", "noop">>, <<"onCleanup", "fail">>, <<"onCleanup", "noop">> >>
    [] b = "after"       -> << >>
    [] b = "fetch"       -> << <<"read", "src">>, <<"put", "loading", 1>>,
                               <<"put", "error", Undefined>>, <<"executeFetch">> >>
    [] b = "dataMemo"    -> << <<"read", "data">>, <<"set", "dm">> >>
    [] b = "loadingMemo" -> << <<"read", "loading">>, <<"set", "lm">> >>
    [] b = "errorMemo"   -> << <<"read", "error">>, <<"set", "em">> >>
    [] b = "res"         -> << <<"resource">> >>
    [] b = "boom"        -> << <<"onCleanup", "noop">>, <<"throw">> >>
    [] b = "guarded"     -> << <<"tryRoot", "boom">>, <<"onCleanup", "after">> >>
    [] b = "panel"       -> << <<"onCleanup", "noop">>, <<"provide", "theme", 2>>,
                               <<"inject", "theme">>, <<"inject", "locale">> >>
    [] b = "themed"      -> << <<"inject", "theme">>, <<"provide", "theme", 1>>,
                               <<"provide", "locale", 1>>, <<"root", "panel">>,
                               <<"inject", "theme">>, <<"inject", "mode">>,
                               <<"disposeLast">>, <<"onCleanup", "after">> >>
    [] b = "nest"        -> << <<"read", "a">>, <<"effect", "inner">>, <<"read", "g">> >>
    [] b = "nesting"     -> << <<"effect", "nest">> >>
    [] b = "row"         -> << <<"inject", "theme">> >>
    [] b = "list"        -> << <<"if", "a", << <<"root", "row">> >>, << >> >> >>
    [] b = "provider"    -> << <<"provide", "theme", 1>>, <<"effect", "list">> >>
    [] b = "toggle"      -> << <<"if", "g", << <<"put", "g", 0>> >>, << <<"put", "g", 1>> >> >> >>
    [] b = "ping"        -> << <<"if", "a", << <<"put", "b", 1>> >>, << <<"put", "b", 0>> >> >> >>
    [] b = "pong"        -> << <<"if", "b", << <<"put", "a", 0>> >>, << <<"put", "a", 1>> >> >> >>
    [] b = "loops"       -> << <<"effect", "toggle">>, <<"effect", "ping">>, <<"effect", "pong">> >>
    [] b = "fussy"       -> << <<"read", "a">>, <<"read", "b">>, <<"throwIf">> >>
    [] b = "fragile"     -> << <<"effect", "fussy">>, <<"effect", "count">>,
                             <<"effect", "fussy">> >>
    [] b = "registrar"   -> << <<"onCleanup", "noop">> >>
    [] b = "spawner"     -> << <<"effect", "count">> >>
    [] b = "teardown"    -> << <<"onCleanup", "registrar">>, <<"onCleanup", "spawner">> >>

RootBodies == {"app", "derive", "cond", "risky", "tidy", "guarded", "themed", "nesting",
               "teardown"}
TopEffectBodies == {"count"}
TopMemoBodies == {"succ"}

Contexts == {"theme", "locale", "mode"}
defaultValue(ctx) == IF ctx = "mode" THEN 0 ELSE Undefined

(***************************************************************************)
(* A JavaScript Set as a sequence without repetition, in insertion order.  *)
(***************************************************************************)
Range(s) == {s[i] : i \in 1..Len(s)}
SetAdd(s, x) == IF x \in Range(s) THEN s ELSE Append(s, x)
SetDelete(s, x) == SelectSeq(s, LAMBDA y : y # x)
SetAddAll(s, t) == s \o SelectSeq(t, LAMBDA y : y \notin Range(s))

Min(x, y) == IF x < y THEN x ELSE y

State ==
  [value |-> value, subscribers |-> subscribers, effects |-> effects,
   effectStack |-> effectStack, dirtyEffects |-> dirtyEffects,
   isBatching |-> isBatching, currentOwner |-> currentOwner, owners |-> owners,
   cleanups |-> cleanups, thrown |-> FALSE, runLog |-> <<>>, cleanupLog |-> <<>>,
   disposed |-> disposed, disposedRoots |-> disposedRoots,
   ranDisposed |-> ranDisposed, owed |-> {},
   marked |-> IF isBatching THEN marked ELSE <<>>, inFlush |-> FALSE,
   disposing |-> {},
   failed |-> {}, injected |-> <<>>, fetches |-> fetches, settled |-> settled,
   kind |-> "pending"]

Call(op, name, n, v) ==
  [op |-> op, name |-> name, n |-> n, v |-> v,
   old |-> IF op = "write" THEN value[name] ELSE 0,
   fx |-> Len(effects), nf |-> Len(fetches)]

Record(s, call) ==
  /\ lastCall' = call
  /\ calls' = calls + 1
  /\ fetches' = s.fetches
  /\ settled' = s.settled
  /\ flushed' = (flushed \/ call.op = "flush")
  /\ wedge' = CASE call.op = "flush" /\ s.thrown ->
                    [phase |-> "threw", cell |-> ""]
             [] call.op = "flush" /\ ~s.thrown /\ wedge.phase = "wrote" ->
                    [phase |-> "recovered", cell |-> wedge.cell]
             [] call.op = "write" /\ call.v # call.old /\ wedge.phase = "threw" ->
                    [phase |-> "wrote", cell |-> call.name]
             [] OTHER -> wedge
  /\ UNCHANGED <<forVars, lisVars, asyncVars>>
  /\ value' = s.value
  /\ subscribers' = s.subscribers
  /\ effects' = s.effects
  /\ effectStack' = s.effectStack
  /\ dirtyEffects' = s.dirtyEffects
  /\ isBatching' = s.isBatching
  /\ currentOwner' = s.currentOwner
  /\ owners' = s.owners
  /\ cleanups' = s.cleanups
  /\ thrown' = s.thrown
  /\ runLog' = s.runLog
  /\ cleanupLog' = s.cleanupLog
  /\ disposed' = s.disposed
  /\ disposedRoots' = s.disposedRoots
  /\ ranDisposed' = s.ranDisposed
  /\ owed' = s.owed
  /\ marked' = s.marked
  /\ failed' = s.failed
  /\ injected' = s.injected

Commit(s, call) == calls < MaxCalls /\ Record(s, call)

WithinBounds(s) ==
  /\ Len(s.effects) <= MaxEffects
  /\ Len(s.owners) <= MaxOwners
  /\ Len(s.fetches) <= MaxFetches

(***************************************************************************)
(* internal/scheduler and primitives/signal                                *)
(***************************************************************************)
RECURSIVE RunOps(_, _, _)
RECURSIVE execute(_, _)
RECURSIVE createEffect(_, _)
RECURSIVE createRoot(_, _)
RECURSIVE dispose(_, _)

flushQueue(st) ==
  IF st.isBatching THEN st ELSE [st EXCEPT !.isBatching = TRUE]

\* A cleanup that clears the effect's dependencies and leaves the cells'
\* subscriber sets alone.
cleanup_OneWay(st, e) ==
  [st EXCEPT !.effects[e].dependencies = {}]

cleanup(st, e) ==
  [st EXCEPT
     !.subscribers = [c \in Cells |->
        IF c \in st.effects[e].dependencies
          THEN SetDelete(st.subscribers[c], e) ELSE st.subscribers[c]],
     !.effects[e].dependencies = {}]

read(st, c) ==
  IF st.effectStack # <<>>
    THEN LET currentEffect == st.effectStack[Len(st.effectStack)]
         IN [st EXCEPT
               !.subscribers[c] = SetAdd(@, currentEffect),
               !.effects[currentEffect].dependencies = @ \cup {c},
               !.effects[currentEffect].reads = @ \cup {<<c, st.value[c]>>}]
    ELSE st

write_NoDedup(st, c, newValue) ==
  IF st.value[c] = newValue
    THEN st
    ELSE flushQueue(
           [st EXCEPT
              !.value[c] = newValue,
              !.dirtyEffects = @ \o st.subscribers[c],
              !.marked = @ \o st.subscribers[c],
              !.owed = IF st.inFlush THEN @ \cup Range(st.subscribers[c]) ELSE @])

write_NoIdentityCheck(st, c, newValue) ==
  flushQueue(
    [st EXCEPT
       !.value[c] = newValue,
       !.dirtyEffects = SetAddAll(@, st.subscribers[c]),
       !.marked = @ \o st.subscribers[c],
       !.owed = IF st.inFlush THEN @ \cup Range(st.subscribers[c]) ELSE @])

RECURSIVE executeAll(_, _)
executeAll(st, subs) ==
  IF subs = <<>> THEN st ELSE executeAll(execute(st, Head(subs)), Tail(subs))

write_Synchronous(st, c, newValue) ==
  IF st.value[c] = newValue
    THEN st
    ELSE executeAll([st EXCEPT !.value[c] = newValue], st.subscribers[c])

write(st, c, newValue) ==
  IF st.value[c] = newValue
    THEN st
    ELSE flushQueue(
           [st EXCEPT
              !.value[c] = newValue,
              !.dirtyEffects = SetAddAll(@, st.subscribers[c]),
              !.marked = @ \o st.subscribers[c],
              !.owed = IF st.inFlush THEN @ \cup Range(st.subscribers[c]) ELSE @])

(***************************************************************************)
(* lifecycle/lifecycle, primitives/effect, primitives/memo                 *)
(***************************************************************************)
onCleanup(st, fn) ==
  IF st.currentOwner # 0
    THEN [st EXCEPT
            !.cleanups = Append(@, [fn EXCEPT !.owner = st.currentOwner,
                                              !.late = st.currentOwner \in st.disposing]),
            !.owners[st.currentOwner].cleanups = Append(@, Len(st.cleanups) + 1)]
    ELSE st

disposer(st, e) ==
  [cleanup(st, e) EXCEPT !.disposed = @ \cup {e}]

\* The finally block of execute: the effect leaves the stack whether or not its
\* body threw.  balanced records that every run so far left the stack as it
\* found it.
pop(s, st, e) ==
  LET stack == SubSeq(s.effectStack, 1, Len(s.effectStack) - 1)
  IN [s EXCEPT !.effectStack = stack,
               !.failed = IF s.thrown THEN @ \cup {e} ELSE @,
               !.effects[e].balanced = @ /\ stack = st.effectStack]

execute_NoCleanup(st, e) ==
  LET s0 == [st EXCEPT
               !.runLog = Append(@, e),
               !.ranDisposed = IF e \in st.disposed THEN @ \cup {e} ELSE @,
               !.owed = @ \ {e},
               !.effects[e].reads = {}]
      s2 == [s0 EXCEPT !.effectStack = Append(@, e)]
      s3 == RunOps(s2, Body(st.effects[e].body), 0)
  IN pop(s3, st, e)

\* A run that leaves the effect on the stack.
execute_NoPop(st, e) ==
  LET s0 == [st EXCEPT
               !.runLog = Append(@, e),
               !.ranDisposed = IF e \in st.disposed THEN @ \cup {e} ELSE @,
               !.owed = @ \ {e},
               !.effects[e].reads = {}]
      s1 == cleanup(s0, e)
      s2 == [s1 EXCEPT !.effectStack = Append(@, e)]
      s3 == RunOps(s2, Body(st.effects[e].body), 0)
      s4 == [s3 EXCEPT !.failed = IF s3.thrown THEN @ \cup {e} ELSE @]
  IN [s4 EXCEPT !.effects[e].balanced = @ /\ s4.effectStack = st.effectStack]

execute(st, e) ==
  LET s0 == [st EXCEPT
               !.runLog = Append(@, e),
               !.ranDisposed = IF e \in st.disposed THEN @ \cup {e} ELSE @,
               !.owed = @ \ {e},
               !.effects[e].reads = {}]
      s1 == cleanup(s0, e)
      s2 == [s1 EXCEPT !.effectStack = Append(@, e)]
      s3 == RunOps(s2, Body(st.effects[e].body), 0)
  IN pop(s3, st, e)

createEffect_Lazy(st, b) ==
  LET e == Len(st.effects) + 1
      s0 == [st EXCEPT !.effects = Append(@,
               [body |-> b, dependencies |-> {}, reads |-> {}, home |-> st.currentOwner,
                balanced |-> TRUE,
                top |-> (st.currentOwner = 0 /\ st.effectStack = <<>>)])]
  IN onCleanup(s0, [kind |-> "effect", e |-> e, body |-> "", owner |-> 0, calls |-> 0, late |-> FALSE])

createEffect(st, b) ==
  LET e == Len(st.effects) + 1
      home == IF st.currentOwner # 0 THEN st.currentOwner
              ELSE IF st.effectStack # <<>>
                     THEN st.effects[st.effectStack[Len(st.effectStack)]].home
                     ELSE 0
      s0 == [st EXCEPT !.effects = Append(@,
               [body |-> b, dependencies |-> {}, reads |-> {}, home |-> home,
                balanced |-> TRUE,
                top |-> (st.currentOwner = 0 /\ st.effectStack = <<>>)])]
      s1 == execute(s0, e)
  IN IF s1.thrown
       THEN s1
       ELSE onCleanup(s1, [kind |-> "effect", e |-> e, body |-> "", owner |-> 0, calls |-> 0, late |-> FALSE])

createMemo(st, b) == createEffect(st, b)

createRoot_NoRestore(st, b) ==
  LET parentOwner == st.currentOwner
      root == Len(st.owners) + 1
      s0 == [st EXCEPT
               !.owners = Append(@, [parent |-> parentOwner, cleanups |-> <<>>,
                                     contexts |-> <<>>, body |-> b, held |-> FALSE]),
               !.currentOwner = root]
      s1 == RunOps(s0, Body(b), 0)
  IN IF s1.thrown
       THEN s1
       ELSE [s1 EXCEPT !.currentOwner = parentOwner,
                       !.owners[root].held = parentOwner = 0]

createRoot(st, b) ==
  LET parentOwner == st.currentOwner
      root == Len(st.owners) + 1
      s0 == [st EXCEPT
               !.owners = Append(@, [parent |-> parentOwner, cleanups |-> <<>>,
                                     contexts |-> <<>>, body |-> b, held |-> FALSE]),
               !.currentOwner = root]
      s1 == RunOps(s0, Body(b), 0)
  IN [s1 EXCEPT !.currentOwner = parentOwner,
                !.owners[root].held = ~s1.thrown /\ parentOwner = 0]

(***************************************************************************)
(* primitives/resource                                                     *)
(***************************************************************************)
\* executeFetch up to its await: the fetcher is called; when it throws, the
\* catch and finally blocks run at once.
executeFetch_NoCatch(st, sourceValue) ==
  LET n == Len(st.fetches) + 1
      overlap == \E i \in 1..Len(st.fetches) : st.fetches[i].state = "pending"
  IN IF st.kind = "throw"
       THEN [st EXCEPT
               !.fetches = Append(@, [source |-> sourceValue, state |-> "threw",
                                      overlap |-> overlap,
                                      orphan |-> st.disposedRoots # {}]),
               !.settled = Append(@, n),
               !.thrown = TRUE]
       ELSE [st EXCEPT
               !.fetches = Append(@, [source |-> sourceValue, state |-> "pending",
                                      overlap |-> overlap,
                                      orphan |-> st.disposedRoots # {}])]

executeFetch(st, sourceValue) ==
  LET n == Len(st.fetches) + 1
      overlap == \E i \in 1..Len(st.fetches) : st.fetches[i].state = "pending"
  IN IF st.kind = "throw"
       THEN LET s1 == [st EXCEPT
                         !.fetches = Append(@, [source |-> sourceValue, state |-> "threw",
                                                overlap |-> overlap,
                                      orphan |-> st.disposedRoots # {}]),
                         !.settled = Append(@, n)]
                s2 == write(s1, "error", Reason(sourceValue))
            IN write(s2, "loading", 0)
       ELSE [st EXCEPT
               !.fetches = Append(@, [source |-> sourceValue, state |-> "pending",
                                      overlap |-> overlap,
                                      orphan |-> st.disposedRoots # {}])]

\* executeFetch after its await: the promise of call i has settled.
resume_LatestOnly(st, i, outcome) ==
  LET sourceValue == st.fetches[i].source
      s1 == [st EXCEPT !.fetches[i].state = outcome, !.settled = Append(@, i)]
      s2 == IF outcome = "fulfilled"
              THEN write(s1, "data", Result(sourceValue))
              ELSE write(s1, "error", Reason(sourceValue))
  IN IF i = Len(st.fetches) THEN write(s2, "loading", 0) ELSE s1

resume(st, i, outcome) ==
  LET sourceValue == st.fetches[i].source
      s1 == [st EXCEPT !.fetches[i].state = outcome, !.settled = Append(@, i)]
      s2 == IF outcome = "fulfilled"
              THEN write(s1, "data", Result(sourceValue))
              ELSE write(s1, "error", Reason(sourceValue))
  IN write(s2, "loading", 0)

createResource(st) ==
  RunOps(st, << <<"effect", "fetch">>, <<"memo", "dataMemo">>,
                <<"memo", "loadingMemo">>, <<"memo", "errorMemo">> >>, 0)

(***************************************************************************)
(* Owner.contexts, a Map, as a function from the context ids provided in   *)
(* the scope.                                                              *)
(***************************************************************************)
provide(st, ctx, v) ==
  IF st.currentOwner = 0
    THEN st
    ELSE [st EXCEPT !.owners[st.currentOwner].contexts =
            [x \in DOMAIN @ \cup {ctx} |-> IF x = ctx THEN v ELSE @[x]]]

RECURSIVE lookup(_, _, _)
lookup(st, owner, ctx) ==
  IF owner = 0
    THEN defaultValue(ctx)
    ELSE IF ctx \in DOMAIN st.owners[owner].contexts
           THEN st.owners[owner].contexts[ctx]
           ELSE lookup(st, st.owners[owner].parent, ctx)

inject_NoWalk(st, ctx) ==
  IF st.currentOwner # 0 /\ ctx \in DOMAIN st.owners[st.currentOwner].contexts
    THEN st.owners[st.currentOwner].contexts[ctx]
    ELSE defaultValue(ctx)

inject(st, ctx) == lookup(st, st.currentOwner, ctx)

\* The contexts maps of the scopes from `owner` up through its parents.
RECURSIVE Chain(_, _)
Chain(st, owner) ==
  IF owner = 0
    THEN <<>>
    ELSE <<st.owners[owner].contexts>> \o Chain(st, st.owners[owner].parent)

RunOps(st, ops, acc) ==
  IF ops = <<>> \/ st.thrown
    THEN st
    ELSE LET op == Head(ops)
             rest == Tail(ops)
         IN CASE op[1] = "read" -> RunOps(read(st, op[2]), rest, st.value[op[2]])
              [] op[1] = "if" ->
                   RunOps(read(st, op[2]),
                          (IF st.value[op[2]] # 0 THEN op[3] ELSE op[4]) \o rest, acc)
              [] op[1] = "inc" -> RunOps(st, rest, acc + 1)
              [] op[1] = "set" -> RunOps(write(st, op[2], acc), rest, acc)
              [] op[1] = "effect" -> RunOps(createEffect(st, op[2]), rest, acc)
              [] op[1] = "memo" -> RunOps(createMemo(st, op[2]), rest, acc)
              [] op[1] = "root" -> RunOps(createRoot(st, op[2]), rest, acc)
              [] op[1] = "onCleanup" ->
                   RunOps(onCleanup(st, [kind |-> "user", e |-> 0, body |-> op[2],
                                         owner |-> 0, calls |-> 0, late |-> FALSE]), rest, acc)
              [] op[1] = "put" -> RunOps(write(st, op[2], op[3]), rest, acc)
              [] op[1] = "executeFetch" -> RunOps(executeFetch(st, acc), rest, acc)
              [] op[1] = "resource" -> RunOps(createResource(st), rest, acc)
              [] op[1] = "tryRoot" ->
                   RunOps([createRoot(st, op[2]) EXCEPT !.thrown = FALSE], rest, acc)
              [] op[1] = "disposeLast" -> RunOps(dispose(st, Len(st.owners)), rest, acc)
              [] op[1] = "provide" -> RunOps(provide(st, op[2], op[3]), rest, acc)
              [] op[1] = "inject" ->
                   RunOps([st EXCEPT !.injected = Append(@,
                             [ctx |-> op[2], result |-> inject(st, op[2]),
                              chain |-> Chain(st, st.currentOwner),
                              owner |-> st.currentOwner])],
                          rest, inject(st, op[2]))
              [] op[1] = "throw" -> [st EXCEPT !.thrown = TRUE]
              [] op[1] = "throwIf" ->
                   IF acc # 0 THEN [st EXCEPT !.thrown = TRUE] ELSE RunOps(st, rest, acc)

invoke(st, k) ==
  LET fn == st.cleanups[k]
      s0 == [st EXCEPT !.cleanups[k].calls = Min(@ + 1, 2),
                       !.cleanupLog = Append(@, k)]
  IN IF fn.kind = "effect" THEN disposer(s0, fn.e) ELSE RunOps(s0, Body(fn.body), 0)

RECURSIVE disposeLoop(_, _, _)
disposeLoop(st, root, i) ==
  IF i < 1
    THEN st
    ELSE LET s1 == invoke(st, st.owners[root].cleanups[i])
         IN IF s1.thrown THEN s1 ELSE disposeLoop(s1, root, i - 1)

dispose(st, root) ==
  LET prevOwner == st.currentOwner
      s0 == [st EXCEPT !.currentOwner = root, !.disposing = @ \cup {root}]
      s1 == disposeLoop(s0, root, Len(st.owners[root].cleanups))
      s2 == IF s1.thrown
              THEN s1
              ELSE [s1 EXCEPT !.owners[root].cleanups = <<>>,
                              !.disposedRoots = @ \cup {root}]
  IN [s2 EXCEPT !.currentOwner = prevOwner, !.disposing = st.disposing]

\* A pass that visits the dirty set from its newest entry to its oldest.
RECURSIVE forEachDirty_NewestFirst(_, _)
forEachDirty_NewestFirst(st, i) ==
  IF i > Len(st.dirtyEffects)
    THEN st
    ELSE LET s1 == execute(st, st.dirtyEffects[Len(st.dirtyEffects) - i + 1])
         IN IF s1.thrown THEN s1 ELSE forEachDirty_NewestFirst(s1, i + 1)

RECURSIVE forEachDirty(_, _)
forEachDirty(st, i) ==
  IF i > Len(st.dirtyEffects)
    THEN st
    ELSE LET s1 == execute(st, st.dirtyEffects[i])
         IN IF s1.thrown THEN s1 ELSE forEachDirty(s1, i + 1)

flushMicrotask_Catch(st) ==
  LET s1 == forEachDirty([st EXCEPT !.inFlush = TRUE], 1)
  IN [s1 EXCEPT !.dirtyEffects = <<>>, !.isBatching = FALSE, !.inFlush = FALSE,
                !.thrown = FALSE]

\* A flush that queues another flush for the computations marked during the
\* pass after their run.
flushMicrotask_Again(st) ==
  LET s1 == forEachDirty([st EXCEPT !.inFlush = TRUE], 1)
      again == SelectSeq(s1.dirtyEffects, LAMBDA e : e \in s1.owed)
  IN [s1 EXCEPT !.dirtyEffects = again, !.isBatching = again # <<>>, !.inFlush = FALSE]

\* A flush whose reset of the dirty set and of the flag is skipped when a body
\* throws, as it would be without the finally block.
flushMicrotask_NoFinally(st) ==
  LET s1 == forEachDirty([st EXCEPT !.inFlush = TRUE], 1)
  IN IF s1.thrown
       THEN [s1 EXCEPT !.inFlush = FALSE]
       ELSE [s1 EXCEPT !.dirtyEffects = <<>>, !.isBatching = FALSE, !.inFlush = FALSE]

flushMicrotask(st) ==
  LET s1 == forEachDirty([st EXCEPT !.inFlush = TRUE], 1)
  IN [s1 EXCEPT !.dirtyEffects = <<>>, !.isBatching = FALSE, !.inFlush = FALSE]

(***************************************************************************)
(* internal/lis: lis_small, the implementation used below the threshold of *)
(* 64 elements.  The arrays are sequences; the element at the code's index *)
(* i is At(s, i); an empty slot of tails or predecessors holds -1.         *)
(***************************************************************************)
At(s, i) == s[i + 1]
Put(s, i, x) == [s EXCEPT ![i + 1] = x]

\* A binary search for the leftmost tail that is greater than num.
RECURSIVE search_NotStrict(_, _, _, _, _)
search_NotStrict(seq, tails, num, lo, hi) ==
  IF lo < hi
    THEN LET mid == (lo + hi) \div 2
         IN IF At(seq, At(tails, mid)) <= num
              THEN search_NotStrict(seq, tails, num, mid + 1, hi)
              ELSE search_NotStrict(seq, tails, num, lo, mid)
    ELSE lo

RECURSIVE search(_, _, _, _, _)
search(seq, tails, num, lo, hi) ==
  IF lo < hi
    THEN LET mid == (lo + hi) \div 2
         IN IF At(seq, At(tails, mid)) < num
              THEN search(seq, tails, num, mid + 1, hi)
              ELSE search(seq, tails, num, lo, mid)
    ELSE lo

\* A loop that skips every negative entry, not only the marker -1.
RECURSIVE scan_SkipNegative(_, _, _)
scan_SkipNegative(seq, i, w) ==
  IF i >= Len(seq)
    THEN w
    ELSE LET num == At(seq, i)
         IN IF num < 0
              THEN scan_SkipNegative(seq, i + 1, [w EXCEPT !.predecessors = Put(@, i, -1)])
              ELSE LET lo == search(seq, w.tails, num, 0, w.len)
                   IN scan_SkipNegative(seq, i + 1,
                           [predecessors |-> Put(w.predecessors, i,
                               IF lo = 0 THEN -1 ELSE At(w.tails, lo - 1)),
                            tails |-> Put(w.tails, lo, i),
                            len |-> IF lo = w.len THEN w.len + 1 ELSE w.len])

\* A scan that never replaces a tail by a smaller one.
RECURSIVE scan_KeepTails(_, _, _)
scan_KeepTails(seq, i, w) ==
  IF i >= Len(seq)
    THEN w
    ELSE LET num == At(seq, i)
         IN IF num = -1
              THEN scan_KeepTails(seq, i + 1, [w EXCEPT !.predecessors = Put(@, i, -1)])
              ELSE LET lo == search(seq, w.tails, num, 0, w.len)
                   IN scan_KeepTails(seq, i + 1,
                           [predecessors |-> Put(w.predecessors, i,
                               IF lo = 0 THEN -1 ELSE At(w.tails, lo - 1)),
                            tails |-> IF lo = w.len THEN Put(w.tails, lo, i) ELSE w.tails,
                            len |-> IF lo = w.len THEN w.len + 1 ELSE w.len])

RECURSIVE scan(_, _, _)
scan(seq, i, w) ==
  IF i >= Len(seq)
    THEN w
    ELSE LET num == At(seq, i)
         IN IF num = -1
              THEN scan(seq, i + 1, [w EXCEPT !.predecessors = Put(@, i, -1)])
              ELSE LET lo == search(seq, w.tails, num, 0, w.len)
                   IN scan(seq, i + 1,
                           [predecessors |-> Put(w.predecessors, i,
                               IF lo = 0 THEN -1 ELSE At(w.tails, lo - 1)),
                            tails |-> Put(w.tails, lo, i),
                            len |-> IF lo = w.len THEN w.len + 1 ELSE w.len])

RECURSIVE reconstruct(_, _, _, _)
reconstruct(predecessors, lis, k, i) ==
  IF i < 0
    THEN lis
    ELSE reconstruct(predecessors, Put(lis, i, k), At(predecessors, k), i - 1)

\* The first entry that is not skipped, alone.
lis_small_First(seq) ==
  LET kept == {i \in 0..(Len(seq) - 1) : At(seq, i) # -1}
  IN IF kept = {} THEN <<>> ELSE <<CHOOSE i \in kept : \A j \in kept : i <= j>>

lis_small(seq) ==
  LET n == Len(seq)
  IN IF n = 0 THEN <<>>
     ELSE IF n = 1 THEN (IF At(seq, 0) = -1 THEN <<>> ELSE <<0>>)
     ELSE LET w == scan(seq, 0, [predecessors |-> [j \in 1..n |-> -1],
                                 tails |-> [j \in 1..n |-> -1], len |-> 0])
          IN IF w.len = 0
               THEN <<>>
               ELSE reconstruct(w.predecessors, [j \in 1..w.len |-> -1],
                                At(w.tails, w.len - 1), w.len - 1)

(***************************************************************************)
(* internal/lis: lis_large, on a Uint32Array of 2n elements whose first    *)
(* half is predecessors and second half tails.  An element is a 32-bit     *)
(* unsigned word, held as its two 16-bit halves; a store of a number keeps *)
(* it modulo 2^32.                                                         *)
(***************************************************************************)
ToUint32(x) == [hi |-> (x \div 65536) % 65536, lo |-> x % 65536]
ToNumber(u) == u.hi * 65536 + u.lo
\* const SENTINEL = 0xFFFFFFFF
SENTINEL == [hi |-> 65535, lo |-> 65535]
NoBuffer == <<>>

RECURSIVE search_large(_, _, _, _, _, _)
search_large(seq, buffer, n, num, lo, hi) ==
  IF lo < hi
    THEN LET mid == (lo + hi) \div 2
         IN IF At(seq, ToNumber(At(buffer, n + mid))) < num
              THEN search_large(seq, buffer, n, num, mid + 1, hi)
              ELSE search_large(seq, buffer, n, num, lo, mid)
    ELSE lo

RECURSIVE scan_large(_, _, _)
scan_large(seq, i, w) ==
  LET n == Len(seq)
  IN IF i >= n
       THEN w
       ELSE LET num == At(seq, i)
            IN IF num = -1
                 THEN scan_large(seq, i + 1, [w EXCEPT !.buffer = Put(@, i, SENTINEL)])
                 ELSE LET lo == search_large(seq, w.buffer, n, num, 0, w.len)
                          b1 == Put(w.buffer, i,
                                    IF lo > 0 THEN At(w.buffer, n + lo - 1)
                                              ELSE SENTINEL)
                      IN scan_large(seq, i + 1,
                                    [buffer |-> Put(b1, n + lo, ToUint32(i)),
                                     len |-> IF lo = w.len THEN w.len + 1 ELSE w.len])

RECURSIVE reconstruct_large(_, _, _, _)
reconstruct_large(buffer, lis, k, i) ==
  IF i < 0
    THEN lis
    ELSE LET pred == At(buffer, k)
         IN reconstruct_large(buffer, Put(lis, i, k),
                              IF pred # SENTINEL THEN ToNumber(pred) ELSE -1, i - 1)

\* A large path that returns the last entry that is not skipped, alone.
lis_large_Short(seq, workBuffer) ==
  LET kept == {i \in 0..(Len(seq) - 1) : At(seq, i) # -1}
  IN IF kept = {} THEN <<>> ELSE <<CHOOSE i \in kept : \A j \in kept : i >= j>>

\* A call that zero-fills a buffer it finds too small.
run_large_Fill(seq, workBuffer) ==
  LET n == Len(seq)
  IN IF n = 0 THEN [lis |-> <<>>, workBuffer |-> workBuffer]
     ELSE IF n = 1
       THEN [lis |-> IF At(seq, 0) = -1 THEN <<>> ELSE <<0>>, workBuffer |-> workBuffer]
     ELSE LET needsSize == 2 * n
              useWorkBuffer == workBuffer # NoBuffer /\ Len(workBuffer) >= needsSize
              buffer == IF useWorkBuffer THEN workBuffer ELSE [j \in 1..needsSize |-> ToUint32(0)]
              w == scan_large(seq, 0, [buffer |-> buffer, len |-> 0])
          IN [lis |-> IF w.len = 0
                        THEN <<>>
                        ELSE reconstruct_large(w.buffer, [j \in 1..w.len |-> -1],
                                               ToNumber(At(w.buffer, n + w.len - 1)),
                                               w.len - 1),
              workBuffer |-> IF useWorkBuffer THEN w.buffer
                             ELSE [j \in 1..Len(workBuffer) |-> ToUint32(0)]]

\* lis_large: what it returns, and the contents it leaves in workBuffer.
run_large(seq, workBuffer) ==
  LET n == Len(seq)
  IN IF n = 0 THEN [lis |-> <<>>, workBuffer |-> workBuffer]
     ELSE IF n = 1
       THEN [lis |-> IF At(seq, 0) = -1 THEN <<>> ELSE <<0>>, workBuffer |-> workBuffer]
     ELSE LET needsSize == 2 * n
              useWorkBuffer == workBuffer # NoBuffer /\ Len(workBuffer) >= needsSize
              buffer == IF useWorkBuffer THEN workBuffer ELSE [j \in 1..needsSize |-> ToUint32(0)]
              w == scan_large(seq, 0, [buffer |-> buffer, len |-> 0])
          IN [lis |-> IF w.len = 0
                        THEN <<>>
                        ELSE reconstruct_large(w.buffer, [j \in 1..w.len |-> -1],
                                               ToNumber(At(w.buffer, n + w.len - 1)),
                                               w.len - 1),
              workBuffer |-> IF useWorkBuffer THEN w.buffer ELSE workBuffer]

lis_large(seq, workBuffer) == run_large(seq, workBuffer).lis

\* The indices of all items that are not new, whether or not they increase.
longestIncreasingSubsequence_AllKept(seq, workBuffer) ==
  LET kept == {i \in 0..(Len(seq) - 1) : At(seq, i) # -1}
      RECURSIVE ascending(_, _)
      ascending(i, acc) ==
        IF i >= Len(seq) THEN acc
        ELSE ascending(i + 1, IF i \in kept THEN Append(acc, i) ELSE acc)
  IN ascending(0, <<>>)

longestIncreasingSubsequence(seq, workBuffer) ==
  LET n == Len(seq)
  IN IF n = 0 THEN <<>>
     ELSE IF n < config.smallArrayThreshold
       THEN lis_small(seq)
       ELSE lis_large(seq, workBuffer)

(***************************************************************************)
(* components/For: one run of For's effect on the array newItems.  A node  *)
(* is a record of the key it renders and a number telling apart the nodes  *)
(* created for one key.  The root createRoot makes for an item is a record *)
(* of its cleanups, the two cells createSignal made in it (data, index)    *)
(* and whether the effect the render callback created is subscribed to the *)
(* data cell; the MappedItem holds the node and, as `scope`, the root      *)
(* whose disposer and setters it keeps.                                    *)
(***************************************************************************)
endMarker == [key |-> 0, n |-> 0]
\* Other children of the parent For's fragment was appended to.
siblingBefore == [key |-> 0, n |-> 1]
siblingAfter == [key |-> 0, n |-> 2]
Keys == 1..MaxKeys

IsDistinct(s) == \A i, j \in 1..Len(s) : i # j => s[i] # s[j]
ItemLists ==
  {s \in UNION {[1..k -> Keys] : k \in 0..MaxKeys} : IsDistinct(s)}

IndexOf(s, x) == CHOOSE i \in 1..Len(s) : s[i] = x
Entry(m, itemKey) ==
  IF \E i \in 1..Len(m) : m[i].key = itemKey
    THEN CHOOSE i \in 1..Len(m) : m[i].key = itemKey
    ELSE 0

\* Map.set: a key already present keeps its place and takes the new value.
MapSet(m, entry) ==
  IF Entry(m, entry.key) = 0
    THEN Append(m, entry)
    ELSE [m EXCEPT ![Entry(m, entry.key)] = entry]

\* The key prop of the keyed tests.
key(item, i) == item.id

Root(d, id) == CHOOSE root \in d.roots : root.id = id
SetRoot(d, id, field, v) ==
  [d EXCEPT !.roots = (@ \ {Root(d, id)}) \cup {[Root(d, id) EXCEPT ![field] = v]}]

\* Node.removeChild / Element.remove
removeChild(d, node) ==
  [d EXCEPT !.dom = SetDelete(@, node),
            !.detached = IF node \in Range(d.dom) THEN Append(@, node) ELSE @]

\* Node.insertBefore: throws when the reference node is not a child.
insertBefore(d, node, next) ==
  IF next \notin Range(d.dom)
    THEN [d EXCEPT !.error = TRUE]
    ELSE IF node = next
      THEN d
      ELSE LET r == SetDelete(d.dom, node)
               p == IndexOf(r, next)
           IN [d EXCEPT !.dom = SubSeq(r, 1, p - 1) \o <<node>> \o SubSeq(r, p, Len(r))]

\* The setters of an item's cells: signal.ts write.  Only the data cell has
\* a subscriber, the effect of the render callback.
writeItem(d, id, cell, newValue) ==
  IF Root(d, id)[cell] = newValue
    THEN d
    ELSE [SetRoot(d, id, cell, newValue) EXCEPT
            !.dirty = IF cell = "data" /\ Root(d, id).subscribed
                        THEN SetAdd(@, id) ELSE @]

\* children(itemSignal, indexSignal): a node that did not exist before.
NewNode(d, itemKey) ==
  LET taken == Range(d.dom) \cup {root.node : root \in d.roots}
      free == {n \in 1..(Cardinality(taken) + 1) : [key |-> itemKey, n |-> n] \notin taken}
  IN [key |-> itemKey, n |-> CHOOSE n \in free : \A m \in free : n <= m]

\* createRoot for a new item: the two cells, the render callback with its
\* effect reading the data cell, and the cleanup that removes the node.
createItem(d, itemData, i, itemKey) ==
  LET used == {root.id : root \in d.roots}
      free == {n \in 1..(Cardinality(used) + 1) : [key |-> itemKey, n |-> n] \notin used}
      id == [key |-> itemKey, n |-> CHOOSE n \in free : \A m \in free : n <= m]
      node == NewNode(d, itemKey)
      root == [id |-> id, key |-> itemKey, node |-> node, data |-> itemData,
               index |-> i, subscribed |-> TRUE,
               cleanups |-> <<"effect", "detach">>, live |-> TRUE]
  IN [d EXCEPT !.roots = @ \cup {root},
               !.rendered = Append(@, itemKey),
               !.newMappedItems =
                  MapSet(@, [key |-> itemKey, node |-> node, scope |-> id])]

\* Reuse of a MappedItem: the new data and index go into its cells.
updateItem(d, itemData, i, itemKey) ==
  LET mappedItem == d.mappedItems[Entry(d.mappedItems, itemKey)]
      d1 == writeItem(d, mappedItem.scope, "data", itemData)
      d2 == writeItem(d1, mappedItem.scope, "index", i)
  IN [d2 EXCEPT !.newMappedItems = MapSet(@, mappedItem)]

\* A first pass that renders every item again, known or not.
RECURSIVE createItems_Recreate(_, _, _)
createItems_Recreate(d, newItems, i) ==
  IF i >= Len(newItems)
    THEN d
    ELSE LET itemData == At(newItems, i)
             itemKey == IF d.keyed THEN key(itemData, i) ELSE itemData
         IN createItems_Recreate(createItem(d, itemData, i, itemKey), newItems, i + 1)

\* Pass 1: create new items and update existing ones.
RECURSIVE createItems(_, _, _)
createItems(d, newItems, i) ==
  IF i >= Len(newItems)
    THEN d
    ELSE LET itemData == At(newItems, i)
             itemKey == IF d.keyed THEN key(itemData, i) ELSE itemData
         IN createItems(IF Entry(d.mappedItems, itemKey) = 0
                          THEN createItem(d, itemData, i, itemKey)
                          ELSE updateItem(d, itemData, i, itemKey),
                        newItems, i + 1)

\* lifecycle.ts dispose, for the root of an item: its cleanups from the last
\* registered to the first, then the list is emptied.
RECURSIVE runCleanups(_, _, _)
runCleanups(d, id, i) ==
  IF i < 1
    THEN d
    ELSE LET fn == Root(d, id).cleanups[i]
             d1 == [d EXCEPT !.cleanupsRun = Append(@, [scope |-> id, fn |-> fn])]
             d2 == IF fn = "detach"
                     THEN removeChild(d1, Root(d, id).node)
                     ELSE SetRoot(d1, id, "subscribed", FALSE)
         IN runCleanups(d2, id, i - 1)

disposeItem(d, id) ==
  LET d1 == runCleanups([d EXCEPT !.disposals = Append(@, id)], id,
                        Len(Root(d, id).cleanups))
  IN SetRoot(SetRoot(d1, id, "cleanups", <<>>), id, "live", FALSE)

\* A removal pass that disposes nothing.
removeOld_Keep(d, i) == d

\* Pass 2: dispose the items that are gone; the cleanup of an item's root
\* removes its node.
RECURSIVE removeOld(_, _)
removeOld(d, i) ==
  IF i > Len(d.mappedItems)
    THEN d
    ELSE removeOld(IF Entry(d.newMappedItems, d.mappedItems[i].key) = 0
                     THEN disposeItem(d, d.mappedItems[i].scope)
                     ELSE d,
                   i + 1)

\* A third pass that inserts every node, stable or not.
RECURSIVE move_NoStable(_, _, _, _, _, _, _)
move_NoStable(d, newNodes, seq, lis, i, cur, next) ==
  IF i < 0 \/ d.error
    THEN d
    ELSE LET node == At(newNodes, i)
         IN move_NoStable([insertBefore(d, node, next) EXCEPT
                             !.inserted = Append(@, [i |-> i, node |-> node])],
                          newNodes, seq, lis, i - 1, cur, node)

\* Pass 3: from the last new item to the first, insert what is new or moved.
RECURSIVE move(_, _, _, _, _, _, _)
move(d, newNodes, seq, lis, i, cur, next) ==
  IF i < 0 \/ d.error
    THEN d
    ELSE LET node == At(newNodes, i)
             moved == [insertBefore(d, node, next) EXCEPT
                         !.inserted = Append(@, [i |-> i, node |-> node])]
         IN IF At(seq, i) = -1
              THEN move(moved, newNodes, seq, lis, i - 1, cur, node)
              ELSE IF cur < 0 \/ i # At(lis, cur)
                THEN move(moved, newNodes, seq, lis, i - 1, cur, node)
                ELSE move(d, newNodes, seq, lis, i - 1, cur - 1, node)

reconcile(d, newItems) ==
  LET d1 == createItems([d EXCEPT !.newMappedItems = <<>>], newItems, 0)
      d2 == removeOld(d1, 1)
      newMappedItems == d2.newMappedItems
      newNodes == [i \in 1..Len(newItems) |->
                     LET itemData == newItems[i]
                         itemKey == IF d.keyed THEN key(itemData, i - 1) ELSE itemData
                     IN newMappedItems[Entry(newMappedItems, itemKey)].node]
      oldMap == [node \in {d.mappedItems[k].node : k \in 1..Len(d.mappedItems)} |->
                   (CHOOSE k \in 1..Len(d.mappedItems) : d.mappedItems[k].node = node) - 1]
      seq == [i \in 1..Len(newItems) |->
                IF newNodes[i] \in DOMAIN oldMap THEN oldMap[newNodes[i]] ELSE -1]
      lis == longestIncreasingSubsequence(seq, NoBuffer)
      d3 == IF Len(newItems) > 0
              THEN move([d2 EXCEPT !.seq = seq, !.lis = lis], newNodes, seq, lis,
                        Len(newNodes) - 1, Len(lis) - 1, endMarker)
              ELSE d2
  IN [d3 EXCEPT !.mappedItems = newMappedItems]

\* The rest of the flush that ran For's effect: the effects of the items
\* whose data cell changed run again (cleanup, then the read subscribes).
RECURSIVE runDirty(_, _)
runDirty(d, i) ==
  IF i > Len(d.dirty)
    THEN [d EXCEPT !.dirty = <<>>]
    ELSE runDirty(SetRoot(d, d.dirty[i], "subscribed", TRUE), i + 1)

\* One update cycle from the state of the For variables.  Roots that were
\* disposed and that no MappedItem refers to are unreachable afterwards.
Cycle(newItems, keyed) ==
  LET d0 == [dom |-> dom, mappedItems |-> mappedItems, roots |-> roots,
             error |-> FALSE, keyed |-> keyed, newMappedItems |-> <<>>,
             dirty |-> <<>>, rendered |-> <<>>, disposals |-> <<>>,
             cleanupsRun |-> <<>>, detached |-> <<>>, inserted |-> <<>>,
             seq |-> <<>>, lis |-> <<>>]
      d1 == runDirty(reconcile(d0, newItems), 1)
  IN [d1 EXCEPT !.roots = {root \in @ :
        root.live \/ \E k \in 1..Len(d1.mappedItems) : d1.mappedItems[k].scope = root.id}]

(***************************************************************************)
(* The calls external code makes, and the microtask.                       *)
(***************************************************************************)
NoCycle ==
  [old |-> <<>>, rendered |-> <<>>, disposals |-> <<>>, cleanupsRun |-> <<>>,
   detached |-> <<>>, inserted |-> <<>>, seq |-> <<>>, lis |-> <<>>]

NoPromise == [state |-> "none", value |-> <<>>, reason |-> <<>>]

InitRuntime ==
  /\ value = [c \in Cells |-> InitialValue(c)]
  /\ subscribers = [c \in Cells |-> <<>>]
  /\ effects = <<>>
  /\ effectStack = <<>>
  /\ dirtyEffects = <<>>
  /\ isBatching = FALSE
  /\ currentOwner = 0
  /\ owners = <<>>
  /\ cleanups = <<>>
  /\ thrown = FALSE
  /\ runLog = <<>>
  /\ cleanupLog = <<>>
  /\ disposed = {}
  /\ disposedRoots = {}
  /\ ranDisposed = {}
  /\ owed = {}
  /\ marked = <<>>
  /\ failed = {}
  /\ injected = <<>>
  /\ fetches = <<>>
  /\ settled = <<>>
  /\ flushed = FALSE
  /\ lastCall = Call("init", "", 0, 0)
  /\ calls = 0
  /\ wedge = [phase |-> "none", cell |-> ""]
  /\ dom = <<siblingBefore, endMarker, siblingAfter>>
  /\ mappedItems = <<>>
  /\ domError = FALSE
  /\ items = <<>>
  /\ change = [replaced |-> FALSE, moved |-> FALSE]
  /\ roots = {}
  /\ cycle = NoCycle
  /\ promise = NoPromise
  /\ worker = "none"
  /\ timeout = "none"
  /\ request = "none"
  /\ inbox = {}
  /\ first = [path |-> "none", promise |-> NoPromise]

NoResults == [small |-> [done |-> FALSE, lis |-> <<>>],
              large |-> [done |-> FALSE, lis |-> <<>>]]

Init ==
  /\ InitRuntime
  /\ config = [smallArrayThreshold |-> DefaultThreshold]
  /\ input = <<>>
  /\ results = NoResults
  /\ scratch = NoBuffer

CreateRoot(b) ==
  /\ \A r \in 1..Len(owners) : owners[r].body # b
  /\ LET s == createRoot(State, b)
     IN WithinBounds(s) /\ Commit(s, Call("createRoot", b, 0, 0))

CreateEffect(b) ==
  LET s == createEffect(State, b)
  IN WithinBounds(s) /\ Commit(s, Call("createEffect", b, 0, 0))

CreateMemo(b) ==
  /\ \A e \in 1..Len(effects) : effects[e].body # b
  /\ LET s == createMemo(State, b)
     IN WithinBounds(s) /\ Commit(s, Call("createMemo", b, 0, 0))

Write(c, v) == Commit(write(State, c, v), Call("write", c, 0, v))

Dispose(root) ==
  /\ owners[root].held
  /\ Commit(dispose(State, root), Call("dispose", "", root, 0))

DisposeEffect(e) ==
  /\ effects[e].top
  /\ Commit(disposer(State, e), Call("disposeEffect", "", e, 0))

Flush ==
  /\ isBatching
  /\ LET s == flushMicrotask(State)
     IN WithinBounds(s) /\ Commit(s, Call("flush", "", 0, 0))

Next ==
  \/ \E b \in RootBodies : CreateRoot(b)
  \/ \E b \in TopEffectBodies : CreateEffect(b)
  \/ \E b \in TopMemoBodies : CreateMemo(b)
  \/ \E c \in SourceCells, v \in Val : Write(c, v)
  \/ \E root \in 1..Len(owners) : Dispose(root)
  \/ \E e \in 1..Len(effects) : DisposeEffect(e)
  \/ Flush

Spec == Init /\ [][Next]_vars

(***************************************************************************)
(* A program that creates one resource in a root (resource.test.ts): the   *)
(* calls external code makes, the flush, and the settlement of a fetcher's *)
(* promise.                                                                *)
(***************************************************************************)
Step(s, call) == calls < MaxSteps /\ WithinBounds(s) /\ Record(s, call)

CreateResource(k) ==
  /\ owners = <<>>
  /\ Step(createRoot([State EXCEPT !.kind = k], "res"), Call("createRoot", "res", 0, 0))

WriteSource(v) == Step(write(State, "src", v), Call("write", "src", 0, v))

FlushResource(k) ==
  /\ isBatching
  /\ Step(flushMicrotask([State EXCEPT !.kind = k]), Call("flush", k, 0, 0))

\* The promise of call i settles and executeFetch resumes.  The flush queued
\* while the resource was created is ahead of it in the microtask queue.
Settle(i, outcome) ==
  /\ fetches[i].state = "pending"
  /\ flushed
  /\ Step(resume(State, i, outcome), Call("settle", outcome, i, 0))

DisposeResource ==
  /\ owners # <<>>
  /\ owners[1].held
  /\ 1 \notin disposedRoots
  /\ Step(dispose(State, 1), Call("dispose", "", 1, 0))

NextResource ==
  \/ \E k \in FetcherKinds : CreateResource(k)
  \/ \E v \in Val : WriteSource(v)
  \/ \E k \in FetcherKinds : FlushResource(k)
  \/ \E i \in 1..Len(fetches), outcome \in Outcomes : Settle(i, outcome)
  \/ DisposeResource

SpecResource == Init /\ [][NextResource]_vars

(***************************************************************************)
(* A program that renders a list inside a scope that provides a context:   *)
(* the list's effect reads the cell `a` (its `each`) and, when it holds an *)
(* item, creates the item's root as For does and runs the render callback  *)
(* in it, which calls inject.  An update cycle is a write of the cell and  *)
(* the flush that re-runs the effect.                                      *)
(***************************************************************************)
RenderList ==
  /\ owners = <<>>
  /\ Step(createRoot(State, "provider"), Call("createRoot", "provider", 0, 0))

WriteEach(v) == Step(write(State, "a", v), Call("write", "a", 0, v))

FlushList ==
  /\ isBatching
  /\ Step(flushMicrotask(State), Call("flush", "", 0, 0))

DisposeList ==
  /\ owners # <<>>
  /\ owners[1].held
  /\ Step(dispose(State, 1), Call("dispose", "", 1, 0))

NextProvider ==
  \/ RenderList
  \/ \E v \in Val : WriteEach(v)
  \/ FlushList
  \/ DisposeList

SpecProvider == Init /\ [][NextProvider]_vars

(***************************************************************************)
(* A program whose computations write cells they depend on: one toggles    *)
(* the cell it reads, two others write the cell the other reads.  External *)
(* code writes the cells; a queued flush microtask always gets to run, so  *)
(* external calls leave room for it within the bound on the calls.         *)
(***************************************************************************)
CreateLoops ==
  /\ owners = <<>>
  /\ calls < MaxSteps - 1
  /\ Step(createRoot(State, "loops"), Call("createRoot", "loops", 0, 0))

WriteCell(c, v) ==
  /\ calls < MaxSteps - 1
  /\ Step(write(State, c, v), Call("write", c, 0, v))

FlushLoops ==
  /\ isBatching
  /\ \E s \in {flushMicrotask(State)} : Step(s, Call("flush", "", 0, 0))

NextLoops ==
  \/ CreateLoops
  \/ \E c \in SourceCells, v \in Val : WriteCell(c, v)
  \/ FlushLoops

(***************************************************************************)
(* A program with a computation whose body throws while the cell b is not  *)
(* 0, created ahead of a computation that reads the cell a as it does.     *)
(***************************************************************************)
CreateFragile ==
  /\ owners = <<>>
  /\ calls < MaxSteps - 1
  /\ Step(createRoot(State, "fragile"), Call("createRoot", "fragile", 0, 0))

NextFragile ==
  \/ CreateFragile
  \/ \E c \in {"a", "b"}, v \in Val : WriteCell(c, v)
  \/ FlushLoops

SpecFragile == Init /\ [][NextFragile]_vars

\* The microtask flushQueue queued gets to run: it is the only step that
\* resets isBatching, so the fairness of the flush is stated on that flag.
FlushDue == isBatching /\ calls < MaxSteps /\ isBatching' = FALSE

SpecLoops == Init /\ [][NextLoops]_vars /\ WF_isBatching(FlushDue)

(***************************************************************************)
(* A program that renders one For: an update cycle is a write of the array *)
(* `each` reads and the flush that re-runs For's effect.  Initially For's  *)
(* effect has run on the empty array and its fragment has been appended    *)
(* to a parent, between two other children.                                *)
(***************************************************************************)
coreVars == <<value, subscribers, effects, effectStack, dirtyEffects, isBatching,
              currentOwner, owners, cleanups, thrown, runLog, cleanupLog,
              disposed, disposedRoots, ranDisposed, owed, marked, fetches, settled,
              flushed, failed, injected, lastCall, calls, wedge>>

Kept(old, new) == SelectSeq(old, LAMBDA k : k \in Range(new))

UpdateFor(newItems) ==
  \E d \in {Cycle(newItems, FALSE)} :
     /\ ~domError
     /\ dom' = d.dom
     /\ mappedItems' = d.mappedItems
     /\ roots' = d.roots
     /\ UNCHANGED cycle
     /\ domError' = d.error
     /\ items' = newItems
     /\ change' = [replaced |-> (Range(newItems) \ Range(items) # {}
                                 /\ Range(items) \ Range(newItems) # {}),
                   moved |-> Kept(items, newItems) # Kept(newItems, items)]
     /\ UNCHANGED <<coreVars, lisVars, asyncVars>>

NextFor == \E newItems \in ItemLists : UpdateFor(newItems)

SpecFor == Init /\ [][NextFor]_vars

(***************************************************************************)
(* A program that renders one For with the key prop item => item.id (the   *)
(* keyed tests of For).  Each update cycle gives For an array of items;    *)
(* the items of one array are objects of one revision, so that an item of  *)
(* the next array with the same id is the same object or another one.      *)
(***************************************************************************)
ItemIds == 1..MaxItems
Revs == {0, 1}
KeyedLists ==
  {s \in UNION {[1..k -> ItemIds] : k \in 0..MaxItems} : IsDistinct(s)}
ItemsOf(ids, rev) == [i \in 1..Len(ids) |-> [id |-> ids[i], rev |-> rev]]

UpdateKeyed(newItems) ==
  \E d \in {Cycle(newItems, TRUE)} :
     /\ ~domError
     /\ dom' = d.dom
     /\ mappedItems' = d.mappedItems
     /\ roots' = d.roots
     /\ domError' = d.error
     /\ items' = newItems
     /\ cycle' = [old |-> mappedItems, rendered |-> d.rendered,
                  disposals |-> d.disposals, cleanupsRun |-> d.cleanupsRun,
                  detached |-> d.detached, inserted |-> d.inserted,
                  seq |-> d.seq, lis |-> d.lis]
     /\ UNCHANGED <<coreVars, lisVars, asyncVars, change>>

NextKeyed == \E ids \in KeyedLists, rev \in Revs : UpdateKeyed(ItemsOf(ids, rev))

SpecKeyed == Init /\ [][NextKeyed]_vars

(***************************************************************************)
(* The same program given arrays in which two items may have one key.      *)
(***************************************************************************)
DupLists == UNION {[1..k -> 1..MaxDupKeys] : k \in 0..MaxDupLen}

UpdateDup(newItems) ==
  /\ UpdateKeyed(newItems)
  /\ Cardinality(roots') <= MaxRoots

NextDup == \E ids \in DupLists, rev \in Revs : UpdateDup(ItemsOf(ids, rev))

SpecDup == Init /\ [][NextDup]_vars

(***************************************************************************)
(* A program that calls longestIncreasingSubsequence on one array, under   *)
(* the default threshold and under the threshold 0 that forces the large   *)
(* path (the LIS tests), with no work buffer, one that is too small or one *)
(* that is large enough and holds the values of an earlier use.            *)
(***************************************************************************)
Nums == -2..MaxNum
Inputs == UNION {[1..k -> Nums] : k \in 0..MaxLen}
Thresholds == {0, DefaultThreshold}
WorkBuffers(n) ==
  {NoBuffer, [j \in 1..(2 * n - 1) |-> SENTINEL], [j \in 1..(2 * n + 1) |-> SENTINEL]}

InitLIS ==
  /\ InitRuntime
  /\ config = [smallArrayThreshold |-> DefaultThreshold]
  /\ input \in Inputs
  /\ results = NoResults
  /\ scratch = NoBuffer

\* configureLIS({ smallArrayThreshold })
configureLIS(newConfig) ==
  /\ newConfig # config
  /\ config' = newConfig
  /\ UNCHANGED <<input, results, scratch, coreVars, forVars, asyncVars>>

CallLIS(workBuffer) ==
  LET path == IF Len(input) < config.smallArrayThreshold THEN "small" ELSE "large"
  IN /\ ~results[path].done
     /\ results' = [results EXCEPT
          ![path] = [done |-> TRUE, lis |-> longestIncreasingSubsequence(input, workBuffer)]]
     /\ UNCHANGED <<config, input, scratch, coreVars, forVars, asyncVars>>

NextLIS ==
  \/ \E t \in Thresholds : configureLIS([smallArrayThreshold |-> t])
  \/ \E workBuffer \in WorkBuffers(Len(input)) : CallLIS(workBuffer)

SpecLIS == InitLIS /\ [][NextLIS]_vars

(***************************************************************************)
(* A program that keeps a Uint32Array to pass as workBuffer: it has set    *)
(* the threshold to 0, as the tests do to force the large path, and calls  *)
(* longestIncreasingSubsequence(input, scratch).  The buffer may be of any *)
(* length around 2n and hold what an earlier use left in it.               *)
(***************************************************************************)
Fills == {<<ToUint32(0), ToUint32(0)>>, <<SENTINEL, SENTINEL>>, <<ToUint32(1), SENTINEL>>}
Buffers(n) ==
  {NoBuffer} \cup
  {[j \in 1..len |-> f[1 + (j % 2)]] : len \in {n, 2 * n - 1, 2 * n, 2 * n + 1}, f \in Fills}

InitBuffer ==
  /\ InitRuntime
  /\ config = [smallArrayThreshold |-> 0]
  /\ input \in Inputs
  /\ scratch \in Buffers(Len(input))
  /\ results = NoResults

CallWithBuffer ==
  LET n == Len(input)
      path == IF n < config.smallArrayThreshold THEN "small" ELSE "large"
  IN /\ ~results[path].done
     /\ results' = [results EXCEPT
          ![path] = [done |-> TRUE, lis |-> longestIncreasingSubsequence(input, scratch)]]
     /\ scratch' = IF n = 0 \/ path = "small"
                     THEN scratch
                     ELSE run_large(input, scratch).workBuffer
     /\ UNCHANGED <<config, input, coreVars, forVars, asyncVars>>

NextBuffer == CallWithBuffer

SpecBuffer == InitBuffer /\ [][NextBuffer]_vars

(***************************************************************************)
(* primitives/lisAsync and lis.worker: the functions of the source are     *)
(* operators over a record `a` of the promise, the worker, the timer, the  *)
(* request and the events queued for the two handlers.  resolve and reject *)
(* are the promise's own: they act on a pending promise only.  An error's  *)
(* message is the sequence of the strings it is built from.                *)
(***************************************************************************)
Async == [promise |-> promise, worker |-> worker, timeout |-> timeout,
          request |-> request, inbox |-> inbox, first |-> first]

resolve(a, path, v) ==
  IF a.promise.state # "pending"
    THEN a
    ELSE LET p == [state |-> "fulfilled", value |-> v, reason |-> <<>>]
         IN [a EXCEPT !.promise = p, !.first = [path |-> path, promise |-> p]]

reject(a, path, error) ==
  IF a.promise.state # "pending"
    THEN a
    ELSE LET p == [state |-> "rejected", value |-> <<>>, reason |-> error]
         IN [a EXCEPT !.promise = p, !.first = [path |-> path, promise |-> p]]

clearTimeout(a) == [a EXCEPT !.timeout = IF @ = "armed" THEN "cleared" ELSE @]
terminate(a) == [a EXCEPT !.worker = "terminated"]

\* setTimeout(() => { ... }, 30000)
onTimeout(a) ==
  reject(terminate([a EXCEPT !.timeout = "fired"]), "timeout",
         <<"Worker timeout: LIS computation took too long.">>)

\* worker.onmessage
onmessage(a, event) ==
  LET a1 == terminate(clearTimeout(a))
  IN IF event.data.kind = "error"
       THEN reject(a1, "errorResponse", <<event.data.error>>)
       ELSE resolve(a1, "response", event.data.list)

\* A handler that rejects and releases nothing.
onerror_NoRelease(a, error) ==
  reject(a, "errorEvent", <<"Worker error: ", error.message>>)

\* worker.onerror
onerror(a, error) ==
  reject(terminate(clearTimeout(a)), "errorEvent", <<"Worker error: ", error.message>>)

\* A call that sets no timer.
longestIncreasingSubsequenceAsync_NoTimer(a, seq, transfers) ==
  IF Len(seq) = 0
    THEN resolve([a EXCEPT !.promise.state = "pending"], "empty", <<>>)
    ELSE LET a1 == [a EXCEPT !.promise.state = "pending", !.worker = "running"]
         IN IF transfers
              THEN [a1 EXCEPT !.request = "posted"]
              ELSE reject(terminate(clearTimeout(a1)), "postFailure", <<"Transfer failed">>)

\* longestIncreasingSubsequenceAsync(seq): the promise's executor.  transfers
\* tells whether worker.postMessage(seq, [seq.buffer]) returns or throws.
longestIncreasingSubsequenceAsync(a, seq, transfers) ==
  IF Len(seq) = 0
    THEN resolve([a EXCEPT !.promise.state = "pending"], "empty", <<>>)
    ELSE LET a1 == [a EXCEPT !.promise.state = "pending", !.worker = "running",
                             !.timeout = "armed"]
         IN IF transfers
              THEN [a1 EXCEPT !.request = "posted"]
              ELSE reject(terminate(clearTimeout(a1)), "postFailure", <<"Transfer failed">>)

\* lis.worker self.onmessage: the result, or the message of what the
\* computation threw.
selfOnmessage(a, seq, throws) ==
  LET data == IF throws
                THEN [kind |-> "error", list |-> <<>>, error |-> "Computation failed"]
                ELSE [kind |-> "list", list |-> longestIncreasingSubsequence(seq, NoBuffer),
                      error |-> ""]
  IN [a EXCEPT !.request = "done",
               !.inbox = @ \cup {[type |-> "message", data |-> data, message |-> ""]}]

(***************************************************************************)
(* A program that calls longestIncreasingSubsequenceAsync once.  The       *)
(* worker may answer, fail, raise an error event or stay silent; an event  *)
(* already queued when the worker is terminated may still reach its        *)
(* handler.  The timer fires unless it was cleared.                        *)
(***************************************************************************)
AsyncInputs == {s \in Inputs : Len(s) <= 2}

InitAsync ==
  /\ InitRuntime
  /\ config = [smallArrayThreshold |-> DefaultThreshold]
  /\ input \in AsyncInputs
  /\ results = NoResults
  /\ scratch = NoBuffer

Become(a) ==
  /\ promise' = a.promise
  /\ worker' = a.worker
  /\ timeout' = a.timeout
  /\ request' = a.request
  /\ inbox' = a.inbox
  /\ first' = a.first
  /\ UNCHANGED <<coreVars, forVars, lisVars>>

CallAsync(transfers) ==
  /\ promise.state = "none"
  /\ Become(longestIncreasingSubsequenceAsync(Async, input, transfers))

WorkerCompute(throws) ==
  /\ worker = "running"
  /\ request = "posted"
  /\ Become(selfOnmessage(Async, input, throws))

WorkerFault ==
  /\ worker = "running"
  /\ \A event \in inbox : event.type # "error"
  /\ Become([Async EXCEPT !.inbox = @ \cup
       {[type |-> "error", message |-> "Failed to load script",
         data |-> [kind |-> "none", list |-> <<>>, error |-> ""]]}])

Deliver(event) ==
  /\ event \in inbox
  /\ LET a == [Async EXCEPT !.inbox = @ \ {event}]
     IN Become(IF event.type = "message" THEN onmessage(a, event) ELSE onerror(a, event))

Timeout ==
  /\ timeout = "armed"
  /\ Become(onTimeout(Async))

NextAsync ==
  \/ \E transfers \in BOOLEAN : CallAsync(transfers)
  \/ \E throws \in BOOLEAN : WorkerCompute(throws)
  \/ WorkerFault
  \/ \E event \in inbox : Deliver(event)
  \/ Timeout

SpecAsync == InitAsync /\ [][NextAsync]_vars /\ WF_vars(Timeout)

(***************************************************************************)
(* Properties.                                                             *)
(***************************************************************************)
Effects == 1..Len(effects)
Owners == 1..Len(owners)
Registered == 1..Len(cleanups)

ReadCells(e) == {p[1] : p \in effects[e].reads}
Subscribed(e) == {c \in Cells : e \in Range(subscribers[c])}
Occurrences(s, x) == Cardinality({i \in 1..Len(s) : s[i] = x})

RECURSIVE IsDescendant(_, _)
IsDescendant(d, r) ==
  /\ d # 0
  /\ owners[d].parent # 0
  /\ (owners[d].parent = r \/ IsDescendant(owners[d].parent, r))

\* C1: once the disposer of a scope has returned, every cleanup registered in
\* a scope nested in it has been run and every effect created in such a scope
\* is unsubscribed from all cells.
C1_ParentDisposesDescendants ==
  \A r \in disposedRoots : \A d \in Owners :
    IsDescendant(d, r) =>
      /\ \A k \in Registered : cleanups[k].owner = d => cleanups[k].calls >= 1
      /\ \A e \in Effects : effects[e].home = d => Subscribed(e) = {}

\* C2: after a root's disposer has returned, no effect created inside that
\* root (during its body or during a later re-run of one of its effects) is
\* subscribed to a cell or is run again.  An effect that ran again after its
\* own disposer returned is the subject of C3 and is left aside here, so
\* that what violates this is an effect the root's disposer never reached.
C2_NoEffectOutlivesItsRoot ==
  \A e \in Effects :
    (effects[e].home \in disposedRoots /\ e \notin ranDisposed) =>
      /\ Subscribed(e) = {}
      /\ effects[e].dependencies = {}
      /\ e \notin Range(runLog)

\* C3: once an effect's disposer has returned, the effect's body is never
\* executed again.
C3_DisposedEffectNeverRuns == ranDisposed = {}

\* C4: a flush runs each computation at most once, however many writes
\* marked it dirty before the flush.
C4_AtMostOneRunPerFlush ==
  lastCall.op = "flush" =>
    \A i, j \in 1..Len(runLog) : i # j => runLog[i] # runLog[j]

C4_Witness ==
  /\ lastCall.op = "flush"
  /\ \E e \in Range(runLog) : Occurrences(marked, e) >= 2

\* C5: a write of a value identical to the current one changes nothing: the
\* value, the subscribers, the dirty set and the pending-flush flag are
\* unchanged and no computation runs.
C5_SameValueWriteChangesNothing ==
  [][(lastCall'.op = "write" /\ lastCall'.v = lastCall'.old) =>
       /\ value' = value
       /\ subscribers' = subscribers
       /\ dirtyEffects' = dirtyEffects
       /\ isBatching' = isBatching
       /\ effects' = effects
       /\ runLog' = <<>>]_vars

C5_Witness ==
  /\ lastCall.op = "write"
  /\ lastCall.v = lastCall.old
  /\ subscribers[lastCall.name] # <<>>
  /\ ~isBatching

\* C6: after every run of a computation, the cells it is subscribed to are
\* exactly the cells read during that run (until its disposer unsubscribes
\* it), so a cell read only on an earlier run no longer marks it dirty.
C6_DependenciesAreLastReads ==
  \A e \in Effects :
    /\ \/ effects[e].dependencies = ReadCells(e)
       \/ e \in disposed /\ effects[e].dependencies = {}
    /\ Subscribed(e) \subseteq ReadCells(e)

C6_Witness ==
  \E e \in Effects :
    /\ effects[e].body = "conditional"
    /\ value["g"] # 0
    /\ lastCall.op = "write" /\ lastCall.name = "b" /\ lastCall.v # lastCall.old
    /\ effects[e].dependencies = {"g", "a"}
    /\ dirtyEffects = <<>>

\* C7: a write made by a computation during a flush is absorbed into that
\* pass: every computation subscribed to the written cell runs in that pass
\* after the write, and no second flush is scheduled.
C7_WriteDuringFlushIsAbsorbed ==
  lastCall.op = "flush" => (owed = {} /\ ~isBatching)

\* C8: whenever no flush is pending, a live memo holds the value its function
\* computes from the current value of its source cell.
C8_MemoIsConsistent ==
  \A e \in Effects :
    (effects[e].body = "succ" /\ e \notin disposed /\ ~isBatching) =>
      value["m"] = value["a"] + 1

\* C9: a write is visible to a direct read at once, but runs no computation:
\* the subscribers are only marked dirty and a flush is pending; the
\* computations a flush runs observe, for a cell not written during the
\* flush, the last value written before it.
C9_WriteIsSynchronousRunsAreDeferred ==
  [][/\ lastCall'.op = "write" =>
          /\ value'[lastCall'.name] = lastCall'.v
          /\ runLog' = <<>>
          /\ effects' = effects
          /\ lastCall'.v # lastCall'.old =>
               /\ isBatching'
               /\ Range(subscribers[lastCall'.name]) \subseteq Range(dirtyEffects')
     /\ lastCall'.op = "flush" =>
          \A e \in Range(dirtyEffects) : \A p \in effects'[e].reads :
            (e \in Range(runLog') /\ value'[p[1]] = value[p[1]]) => p[2] = value[p[1]]
    ]_vars

C9_Witness ==
  /\ lastCall.op = "write"
  /\ lastCall.v # lastCall.old
  /\ lastCall.name = "a"
  /\ value["a"] = lastCall.v
  /\ \E e \in Range(dirtyEffects) : <<"a", lastCall.old>> \in effects[e].reads

\* C10: over any sequence of calls to a scope's disposer, every cleanup
\* registered in the scope is invoked exactly once, and cleanups are invoked
\* in the reverse of their registration order.
C10_CleanupsOnceInReverseOrder ==
  /\ \A k \in Registered : cleanups[k].calls <= 1
  /\ \A k \in Registered :
       cleanups[k].owner \in disposedRoots => cleanups[k].calls = 1
  /\ \A i, j \in 1..Len(cleanupLog) :
       (i < j /\ cleanups[cleanupLog[i]].owner = cleanups[cleanupLog[j]].owner)
         => cleanupLog[i] > cleanupLog[j]

\* C11: createRoot and a scope's disposer leave the active scope as it was
\* before the call, whether they return or throw: no scope is active between
\* the calls of external code, and a cleanup registered by a scope's body
\* after a nested createRoot threw, or after a nested scope was disposed,
\* belongs to the scope of that body.
C11_ActiveScopeIsRestored ==
  /\ currentOwner = 0
  /\ \A k \in Registered :
       cleanups[k].body = "after" =>
         owners[cleanups[k].owner].body \in {"guarded", "themed"}

C11_Witness ==
  /\ lastCall.op = "createRoot" /\ lastCall.name = "guarded"
  /\ \E k \in Registered, d \in Owners :
       /\ cleanups[k].body = "after"
       /\ owners[cleanups[k].owner].body = "guarded"
       /\ owners[d].body = "boom"
       /\ owners[d].parent = cleanups[k].owner

\* C12 (as stated): an exception thrown by a computation's body is raised by
\* the call that triggered the run: the constructing call, or the write that
\* caused the re-run.
C12_ExceptionReachesTriggeringCall ==
  failed # {} =>
    /\ thrown
    /\ lastCall.op \in {"createEffect", "createMemo", "createRoot", "write"}

\* C12 (amended): an exception thrown by a computation's body on its
\* construction run is raised by the constructing call; thrown on a re-run it
\* is raised by the flush that runs it, and never by a write.
C12_ExceptionReachesConstructionOrFlush ==
  /\ failed # {} =>
       /\ thrown
       /\ lastCall.op \in {"createEffect", "createMemo", "createRoot", "flush"}
       /\ lastCall.op = "flush" => \E e \in failed : e <= lastCall.fx
       /\ lastCall.op # "flush" => \E e \in failed : e > lastCall.fx
  /\ lastCall.op = "write" => (~thrown /\ failed = {})

C12_Witness ==
  /\ lastCall.op = "flush"
  /\ thrown
  /\ \E e \in failed : effects[e].body = "picky" /\ <<"a", 1>> \in effects[e].reads

\* C13: when createEffect, createMemo or a createRoot whose body constructs
\* computations returns, the body of every computation constructed by the
\* call has run exactly once and the computation is subscribed to the cells
\* it read; the cell of a memo constructed by the call holds the value its
\* function computes.
C13_RunsOnceAtConstruction ==
  (lastCall.op \in {"createEffect", "createMemo", "createRoot"} /\ ~thrown) =>
    /\ \A e \in (lastCall.fx + 1)..Len(effects) :
         /\ Occurrences(runLog, e) = 1
         /\ Subscribed(e) = ReadCells(e)
         /\ ReadCells(e) # {}
    /\ lastCall.op = "createMemo" => value["m"] = value["a"] + 1

C13_Witness ==
  /\ lastCall.op = "createMemo"
  /\ ~thrown
  /\ value["a"] # 0
  /\ value["m"] = value["a"] + 1
  /\ Len(effects) = lastCall.fx + 1
  /\ Occurrences(runLog, Len(effects)) = 1

\* C14: inject returns the value provided for the context by the nearest
\* scope on the chain from the active scope up through its parents, or the
\* context's default value when no scope of the chain provides it; what a
\* scope provided is not changed by a provide in a nested scope.
C14_InjectFindsNearestProvider ==
  /\ \A i \in 1..Len(injected) :
       LET r == injected[i]
           providers == {j \in 1..Len(r.chain) : r.ctx \in DOMAIN r.chain[j]}
       IN IF providers = {}
            THEN r.result = defaultValue(r.ctx)
            ELSE \E j \in providers :
                   /\ \A k \in providers : j <= k
                   /\ r.result = r.chain[j][r.ctx]
  /\ \A r \in Owners :
       owners[r].body = "themed" => owners[r].contexts["theme"] = 1

C14_Witness ==
  /\ lastCall.op = "createRoot" /\ lastCall.name = "themed"
  /\ Len(injected) = 5
  /\ injected[1].result = Undefined /\ injected[1].chain = << <<>> >>
  /\ injected[2].result = 2
  /\ injected[3].result = 1 /\ "locale" \notin DOMAIN injected[3].chain[1]
  /\ injected[4].result = 1
  /\ injected[5].result = 0

(***************************************************************************)
(* Properties of the resource.                                             *)
(***************************************************************************)
Fetches == 1..Len(fetches)
Pending == {i \in Fetches : fetches[i].state = "pending"}
ResourceLive == owners # <<>> /\ disposed = {} /\ disposedRoots = {}
NoOverlap == \A i \in Fetches : ~fetches[i].overlap

\* The data of the last fetcher call that fulfilled, undefined when none did.
LastData ==
  LET done == {k \in 1..Len(settled) : fetches[settled[k]].state = "fulfilled"}
  IN IF done = {}
       THEN Undefined
       ELSE Result(fetches[settled[CHOOSE k \in done : \A j \in done : j <= k]].source)

\* C15: while fetches do not overlap, the fetcher is called once at creation
\* and once by each flush that follows a change of the source, with the
\* source's value, and by nothing else; and whenever no flush is pending the
\* resource reads loading = true, error = undefined while the call is in
\* flight, data = its result, loading = false once it fulfilled, and
\* error = its reason, loading = false, data as before once it rejected.
C15_ResourceLifeCycle ==
  (ResourceLive /\ NoOverlap) =>
    /\ lastCall.op \in {"write", "settle"} => Len(fetches) = lastCall.nf
    /\ lastCall.op = "createRoot" =>
         Len(fetches) = 1 /\ fetches[1].source = value["src"]
    /\ lastCall.op = "flush" =>
         IF 1 \in Range(marked)
           THEN /\ Len(fetches) = lastCall.nf + 1
                /\ fetches[Len(fetches)].source = value["src"]
           ELSE Len(fetches) = lastCall.nf
    /\ ~isBatching =>
         LET f == fetches[Len(fetches)]
         IN /\ f.state = "pending" => (value["lm"] = 1 /\ value["em"] = Undefined)
            /\ f.state = "fulfilled" =>
                 (value["dm"] = Result(f.source) /\ value["lm"] = 0)
            /\ f.state = "rejected" =>
                 /\ value["em"] = Reason(f.source)
                 /\ value["lm"] = 0
                 /\ value["dm"] = LastData

C17_LoadingMeansFetching ==
  (ResourceLive /\ ~isBatching) => ((value["lm"] = 1) <=> (Pending # {}))

\* C18: with a fetcher that throws or whose promise rejects, no call raises:
\* not createRoot around createResource, not a write of the source, not the
\* flush, not the settlement; the failure is the value of the error cell.
C18_ProducerFailuresAreCaptured ==
  /\ ~thrown
  /\ failed = {}
  /\ (lastCall.op = "settle" /\ lastCall.name = "rejected") =>
       value["error"] = Reason(fetches[lastCall.n].source)
  /\ (/\ lastCall.op \in {"createRoot", "flush"}
      /\ Len(fetches) > lastCall.nf
      /\ fetches[Len(fetches)].state = "threw") =>
       /\ value["error"] = Reason(fetches[Len(fetches)].source)
       /\ value["loading"] = 0

C18_Witness ==
  /\ lastCall.op = "flush"
  /\ Len(fetches) > lastCall.nf
  /\ fetches[Len(fetches)].state = "threw"
  /\ fetches[Len(fetches)].source # 0
  /\ value["error"] = Reason(value["src"])
  /\ ~thrown

\* C19: once the resource's scope is disposed, the settlement of a fetcher
\* call that was in flight at the disposal raises nothing, marks no
\* computation to be run, runs none, and leaves what the resource's data,
\* loading and error handles return.
C19_LateSettlementIsUnobserved ==
  [][(/\ lastCall'.op = "settle"
      /\ 1 \in disposedRoots
      /\ ~fetches[lastCall'.n].orphan) =>
       /\ ~thrown'
       /\ dirtyEffects' = dirtyEffects
       /\ runLog' = <<>>
       /\ value'["dm"] = value["dm"]
       /\ value'["lm"] = value["lm"]
       /\ value'["em"] = value["em"]]_vars

\* C20: after every update cycle of For, the nodes between the parent's
\* other children and the end marker are one node per item of the new
\* array, in the array's order, each rendering its item, and nothing else
\* is attached: no node of a removed item, no node twice; and no DOM call
\* of the cycle threw.
C20_ForRendersNewSequence ==
  /\ ~domError
  /\ Len(dom) = Len(items) + 3
  /\ dom[1] = siblingBefore
  /\ dom[Len(dom) - 1] = endMarker
  /\ dom[Len(dom)] = siblingAfter
  /\ \A i \in 1..Len(items) : dom[i + 1].key = items[i]
  /\ \A i \in 1..Len(items) :
       Entry(mappedItems, items[i]) # 0 /\
       mappedItems[Entry(mappedItems, items[i])].node = dom[i + 1]

C20_Witness ==
  /\ change.replaced /\ change.moved
  /\ Len(items) = 3
  /\ Len(dom) = 6
  /\ \A i \in 1..Len(items) : dom[i + 1].key = items[i]

(***************************************************************************)
(* Properties of the keyed For (SpecKeyed).                                *)
(***************************************************************************)
OldKeys == {cycle.old[k].key : k \in 1..Len(cycle.old)}
NewKeys == {items[i].id : i \in 1..Len(items)}
Old(itemKey) == cycle.old[Entry(cycle.old, itemKey)]
Mapped(itemKey) == mappedItems[Entry(mappedItems, itemKey)]
Positions(itemKey) == {i \in 1..Len(items) : items[i].id = itemKey}
InsertedNodes == {cycle.inserted[j].node : j \in 1..Len(cycle.inserted)}

\* C21: an item whose key is in the old map and in the new array is not
\* rendered again, keeps its node and its root, and after the cycle its data
\* cell holds the new item and its index cell the item's new position.
C21_ReuseWithoutReCreation ==
  \A itemKey \in OldKeys \cap NewKeys :
    /\ itemKey \notin Range(cycle.rendered)
    /\ Entry(mappedItems, itemKey) # 0
    /\ Mapped(itemKey).node = Old(itemKey).node
    /\ Mapped(itemKey).scope = Old(itemKey).scope
    /\ \E root \in roots :
         /\ root.id = Old(itemKey).scope
         /\ \A i \in Positions(itemKey) : root.data = items[i] /\ root.index = i - 1

C21_Witness ==
  /\ cycle.rendered # <<>>
  /\ \E itemKey \in OldKeys \cap NewKeys :
       /\ Positions(itemKey) # {Entry(cycle.old, itemKey)}
       /\ \E root \in roots : root.id = Mapped(itemKey).scope /\ root.data.rev = 1
  /\ \E itemKey \in OldKeys \cap NewKeys :
       Positions(itemKey) = {Entry(cycle.old, itemKey)}

\* C22: in an update cycle each item of the old map whose key is not in the
\* new array has its disposer called once and its node detached once; the
\* root of a surviving item is not disposed, none of its cleanups runs and
\* its effect is still subscribed.
C22_RemovedOnceSurvivorsUntouched ==
  \A itemKey \in OldKeys :
    IF itemKey \notin NewKeys
      THEN /\ Occurrences(cycle.disposals, Old(itemKey).scope) = 1
           /\ Occurrences(cycle.detached, Old(itemKey).node) = 1
           /\ Old(itemKey).node \notin Range(dom)
      ELSE /\ Old(itemKey).scope \notin Range(cycle.disposals)
           /\ \A j \in 1..Len(cycle.cleanupsRun) :
                cycle.cleanupsRun[j].scope # Old(itemKey).scope
           /\ \E root \in roots :
                /\ root.id = Old(itemKey).scope
                /\ root.live
                /\ root.subscribed
                /\ root.cleanups = <<"effect", "detach">>
           /\ Old(itemKey).node \in Range(dom)

C22_Witness ==
  /\ Len(cycle.disposals) = 1
  /\ Len(cycle.detached) = 1
  /\ OldKeys \cap NewKeys # {}
  /\ cycle.rendered # <<>>

\* C24: the reorder pass calls insertBefore at most (number of new items -
\* length of the LIS) times, and never for a node at an index of the LIS.
C24_MovesBoundedByLIS ==
  /\ Len(cycle.inserted) <= Len(items) - Len(cycle.lis)
  /\ \A c \in 1..Len(cycle.lis) :
       /\ \A j \in 1..Len(cycle.inserted) : cycle.inserted[j].i # cycle.lis[c]
       /\ Mapped(items[cycle.lis[c] + 1].id).node \notin InsertedNodes

C24_Witness ==
  /\ Len(cycle.lis) = 2
  /\ Len(items) = MaxItems
  /\ cycle.rendered = <<>>
  /\ Len(cycle.inserted) = 1

\* C25 as claimed: when the keys a, b, c (1, 2, 3) become c, b, a, the node
\* of b stays and the nodes of a and c are passed to insertBefore.
C25_MiddleStaysEndsMove ==
  (/\ [k \in 1..Len(cycle.old) |-> cycle.old[k].key] = <<1, 2, 3>>
   /\ [i \in 1..Len(items) |-> items[i].id] = <<3, 2, 1>>)
  => InsertedNodes = {Mapped(1).node, Mapped(3).node}

\* C25, amended: the position array is 2, 1, 0 and its LIS is the last
\* entry alone, so the node of a stays and the nodes of b and c are passed
\* to insertBefore.
C25_LastStaysOthersMove ==
  (/\ [k \in 1..Len(cycle.old) |-> cycle.old[k].key] = <<1, 2, 3>>
   /\ [i \in 1..Len(items) |-> items[i].id] = <<3, 2, 1>>)
  => /\ cycle.seq = <<2, 1, 0>>
     /\ cycle.lis = <<2>>
     /\ InsertedNodes = {Mapped(2).node, Mapped(3).node}
     /\ [i \in 1..3 |-> dom[i + 1]] = <<Mapped(3).node, Mapped(2).node, Mapped(1).node>>

C25_Witness ==
  /\ [k \in 1..Len(cycle.old) |-> cycle.old[k].key] = <<1, 2, 3>>
  /\ [i \in 1..Len(items) |-> items[i].id] = <<3, 2, 1>>
  /\ Len(cycle.inserted) = 2
  /\ cycle.rendered = <<>>
  /\ ~domError

\* C23: at any time there is at most one undisposed root that For created
\* for a key, whatever arrays the update cycles were given.
C23_OneLiveItemPerKey ==
  \A r1, r2 \in roots :
    (r1.live /\ r2.live /\ r1.key = r2.key) => r1 = r2

(***************************************************************************)
(* Properties of the LIS engine (SpecLIS).                                 *)
(***************************************************************************)
Paths == {"small", "large"}
Indices(s) == 0..(Len(s) - 1)

\* The index lists that are valid for seq: in range, none at a skip
\* marker, indices and values strictly increasing.
IsValid(seq, lis) ==
  /\ \A c \in 1..Len(lis) : lis[c] \in Indices(seq) /\ At(seq, lis[c]) # -1
  /\ \A c \in 2..Len(lis) :
       lis[c] > lis[c - 1] /\ At(seq, lis[c]) > At(seq, lis[c - 1])

\* The greatest length of a strictly increasing subsequence of the entries
\* of seq that are not skipped.
Longest(seq) ==
  LET increasing == {S \in SUBSET Indices(seq) :
                       /\ \A i \in S : At(seq, i) # -1
                       /\ \A i, j \in S : i < j => At(seq, i) < At(seq, j)}
  IN CHOOSE m \in 0..Len(seq) :
       /\ \E S \in increasing : Cardinality(S) = m
       /\ \A S \in increasing : Cardinality(S) <= m

\* C26: on the small path and on the large path the result's indices are
\* in range, never at a skip marker -1, strictly increasing, and so are the
\* values they refer to.
C26_ResultIsValid ==
  \A path \in Paths : results[path].done => IsValid(input, results[path].lis)

C26_Witness ==
  /\ results.small.done /\ results.large.done
  /\ Len(results.small.lis) = 2 /\ Len(results.large.lis) = 2
  /\ \E i \in 1..Len(input) : input[i] = -1
  /\ \E i \in 1..Len(input) : input[i] = -2
  /\ Len(input) = MaxLen

\* C27: the length of the result is the greatest length of a strictly
\* increasing subsequence of the entries that are not skipped; 0 when all
\* are skipped or the input is empty.
C27_ResultIsLongest ==
  \A path \in Paths :
    results[path].done => Len(results[path].lis) = Longest(input)

C27_Witness ==
  /\ results.small.done /\ results.large.done
  /\ Len(results.small.lis) = 2
  /\ Len(input) = MaxLen
  /\ \E i, j \in 1..Len(input) : i < j /\ input[i] = input[j] /\ input[i] # -1
  /\ \E i \in 1..Len(input) : input[i] = -1

\* C28: forced through the threshold, the small path and the large path
\* return index lists of equal length for the same input.
C28_PathsAgreeOnLength ==
  (results.small.done /\ results.large.done)
    => Len(results.small.lis) = Len(results.large.lis)

C28_Witness ==
  /\ results.small.done /\ results.large.done
  /\ config.smallArrayThreshold = 0
  /\ Len(results.large.lis) = 3
  /\ Len(input) = MaxLen

(***************************************************************************)
(* Properties of the offload channel (SpecAsync).                          *)
(***************************************************************************)
Settled == promise.state \in {"fulfilled", "rejected"}

\* What each terminal path settles the promise with.
Outcome(path) ==
  CASE path = "empty" -> [state |-> "fulfilled", value |-> <<>>, reason |-> <<>>]
    [] path = "response" ->
         [state |-> "fulfilled", value |-> lis_small(input), reason |-> <<>>]
    [] path = "errorResponse" ->
         [state |-> "rejected", value |-> <<>>, reason |-> <<"Computation failed">>]
    [] path = "errorEvent" ->
         [state |-> "rejected", value |-> <<>>,
          reason |-> <<"Worker error: ", "Failed to load script">>]
    [] path = "timeout" ->
         [state |-> "rejected", value |-> <<>>,
          reason |-> <<"Worker timeout: LIS computation took too long.">>]
    [] path = "postFailure" ->
         [state |-> "rejected", value |-> <<>>, reason |-> <<"Transfer failed">>]

\* C29: every call settles, once: a pending promise is eventually settled,
\* a settled promise never changes, and it holds the index list, the
\* worker's message, 'Worker error: ...', the timeout message or the error
\* postMessage threw, according to what happened first.
C29_EveryCallSettlesOnce ==
  /\ (promise.state = "pending") ~> Settled
  /\ [][Settled => promise' = promise]_vars
  /\ [](Settled => first.path # "none" /\ promise = Outcome(first.path))

C29_Witness ==
  /\ Settled
  /\ first.path = "timeout"
  /\ request = "done"
  /\ inbox = {}
  /\ Len(input) = 2

\* C30: when the promise is settled by a response, an error response, an
\* error event, the timeout or a failed postMessage, the worker is
\* terminated and the timer is cancelled (or, on the timeout path, has
\* fired), and the outcome is the one of the first event.
C30_ChannelIsReleased ==
  (Settled /\ first.path # "empty") =>
    /\ worker = "terminated"
    /\ timeout = IF first.path = "timeout" THEN "fired" ELSE "cleared"
    /\ promise = first.promise

C30_Witness ==
  /\ Settled
  /\ first.path = "errorEvent"
  /\ \E event \in inbox : event.type = "message"
  /\ worker = "terminated"

(***************************************************************************)
(* The order of a flush.                                                   *)
(***************************************************************************)
\* A sequence without its repetitions: the order of the first occurrences.
RECURSIVE FirstOccurrences(_)
FirstOccurrences(s) ==
  IF s = <<>>
    THEN <<>>
    ELSE SetAdd(FirstOccurrences(SubSeq(s, 1, Len(s) - 1)), s[Len(s)])

\* The runs the forEach of the last flush made: the runs of the last call
\* but the construction run of an effect created during the call.
FlushRuns ==
  LET kept == {i \in 1..Len(runLog) :
                 \/ runLog[i] <= lastCall.fx
                 \/ \E j \in 1..(i - 1) : runLog[j] = runLog[i]}
      F[i \in 0..Len(runLog)] ==
        IF i = 0 THEN <<>>
        ELSE IF i \in kept THEN Append(F[i - 1], runLog[i]) ELSE F[i - 1]
  IN F[Len(runLog)]

IsPrefix(s, t) == Len(s) <= Len(t) /\ s = SubSeq(t, 1, Len(s))

RECURSIVE OwnReads(_)
OwnReads(ops) ==
  IF ops = <<>>
    THEN {}
    ELSE LET op == Head(ops)
         IN (CASE op[1] = "read" -> {op[2]}
               [] op[1] = "if" -> {op[2]} \cup OwnReads(op[3]) \cup OwnReads(op[4])
               [] OTHER -> {})
            \cup OwnReads(Tail(ops))

\* C32: a cell read is attributed only to the innermost computation
\* executing: a computation is subscribed to no cell but those its own body
\* reads; an inner computation constructed during an outer one's run is
\* subscribed to the cell it reads and the outer is not; the outer is
\* subscribed to the cell it reads after the inner's construction returned;
\* and every run, normal or throwing, leaves the execution stack as it found it.
C32_ReadsBelongToInnermost ==
  /\ \A e \in Effects :
       /\ effects[e].dependencies \subseteq OwnReads(Body(effects[e].body))
       /\ Subscribed(e) \subseteq OwnReads(Body(effects[e].body))
       /\ ReadCells(e) \subseteq OwnReads(Body(effects[e].body))
       /\ effects[e].balanced
       /\ (effects[e].body = "nest" /\ e \notin disposed) =>
            /\ Subscribed(e) = {"a", "g"}
            /\ \E i \in Effects :
                 /\ i > e
                 /\ effects[i].body = "inner"
                 /\ "b" \in Subscribed(i) \/ i \in disposed
  /\ effectStack = <<>>

C32_Witness ==
  /\ lastCall.op = "flush"
  /\ thrown
  /\ \E e, j, f \in Effects :
       /\ effects[e].body = "nest" /\ e \notin disposed
       /\ effects[j].body = "inner" /\ j > lastCall.fx
       /\ effects[f].body = "picky" /\ f \in failed
       /\ runLog = <<e, j, f>>
       /\ Subscribed(e) = {"a", "g"}
       /\ Subscribed(j) = {"b"}

(***************************************************************************)
(* The scratch buffer of the large path.                                   *)
(***************************************************************************)
\* C33: on the large path, whatever the length and the prior contents of the
\* work buffer the caller supplies, the call returns what it returns
\* without a buffer, and a buffer shorter than 2n holds after the call what
\* it held before.
C33_BufferChangesNoResult ==
  [][(results'.large.done /\ ~results.large.done) =>
       /\ results'.large.lis = lis_large(input, NoBuffer)
       /\ Len(scratch') = Len(scratch)
       /\ Len(scratch) < 2 * Len(input) => scratch' = scratch]_vars

C33_Witness ==
  /\ results.large.done
  /\ Len(input) = 3
  /\ Len(results.large.lis) = 2
  /\ Len(scratch) = 5
  /\ scratch[1] = SENTINEL /\ scratch[2] = ToUint32(1)

(***************************************************************************)
(* The choice among the longest subsequences.                              *)
(***************************************************************************)
Unskipped(seq) == {i \in Indices(seq) : At(seq, i) # -1}

\* The smallest value a strictly increasing subsequence of greatest length
\* can end with (seq has an entry that is not skipped).
SmallestFinal(seq) ==
  LET longest == {S \in SUBSET Unskipped(seq) :
                    /\ S # {}
                    /\ \A i, j \in S : i < j => At(seq, i) < At(seq, j)
                    /\ Cardinality(S) = Longest(seq)}
      finals == {At(seq, CHOOSE i \in S : \A j \in S : j <= i) : S \in longest}
  IN CHOOSE v \in finals : \A u \in finals : v <= u

\* C34: on either path, the result ends at an entry whose value is the
\* smallest value a longest strictly increasing subsequence of the entries
\* that are not skipped can end with; when those entries strictly decrease,
\* the result is the single index of the last of them, which is the last
\* element of an input without skip markers.
C34_EndsAtSmallestFinalValue ==
  \A path \in Paths :
    (results[path].done /\ Unskipped(input) # {}) =>
      LET lis == results[path].lis
      IN /\ lis # <<>>
         /\ At(input, lis[Len(lis)]) = SmallestFinal(input)
         /\ (\A i, j \in Unskipped(input) : i < j => At(input, i) > At(input, j)) =>
              lis = <<CHOOSE i \in Unskipped(input) : \A j \in Unskipped(input) : j <= i>>

C34_Witness ==
  /\ results.small.done /\ results.large.done
  /\ input = <<2, 1, 0>>
  /\ results.small.lis = <<2>>
  /\ results.large.lis = <<2>>

(***************************************************************************)
(* Cleanups registered during a disposal.                                  *)
(***************************************************************************)
\* C35: a cleanup registered from inside one of a scope's cleanups, while
\* the scope is being disposed, belongs to that scope and is not lost: it
\* has been invoked, or it is still in the scope's list for a later call of
\* the scope's disposer to invoke.
C35_LateCleanupIsNotLost ==
  \A k \in Registered :
    cleanups[k].late =>
      /\ cleanups[k].owner # 0
      /\ owners[cleanups[k].owner].body = "teardown"
      /\ \/ cleanups[k].calls >= 1
         \/ k \in Range(owners[cleanups[k].owner].cleanups)

(***************************************************************************)
(* The subscription graph.                                                 *)
(***************************************************************************)
\* C36: in every reachable state a computation is in a cell's subscriber
\* set if and only if that subscriber set is in the computation's
\* dependency set.
C36_EdgesAreBidirectional ==
  \A e \in Effects : \A c \in Cells :
    (e \in Range(subscribers[c])) <=> (c \in effects[e].dependencies)

C36_Witness ==
  /\ lastCall.op = "dispose"
  /\ \E e \in Effects :
       /\ effects[e].body = "conditional"
       /\ e \in disposed
       /\ ReadCells(e) = {"g", "a"}
       /\ effects[e].dependencies = {}
       /\ Subscribed(e) = {}

(***************************************************************************)
(* Lost updates.                                                           *)
(***************************************************************************)
\* C37: no update is lost: once no flush is pending, the last run of every
\* computation that has not been disposed started after the last change of
\* each cell it depends on, so the value it read from the cell is the
\* cell's value.
C37_NoUpdateIsLost ==
  ~isBatching =>
    \A e \in Effects \ disposed : \A p \in effects[e].reads :
      p[1] \in effects[e].dependencies => p[2] = value[p[1]]

(***************************************************************************)
(* The scope of an item created by an update.                              *)
(***************************************************************************)
\* C38: inside the render callback of an item, whether the item was created
\* at the first render or by an update cycle run from a flush, a context
\* lookup returns the value the scope enclosing the list provided, and the
\* item's scope has that scope as its parent.
C38_ItemScopeFindsEnclosingContext ==
  \A i \in 1..Len(injected) :
    LET r == injected[i]
    IN (r.owner # 0 /\ owners[r.owner].body = "row") =>
         /\ r.result = 1
         /\ owners[r.owner].parent # 0
         /\ owners[owners[r.owner].parent].body = "provider"

(***************************************************************************)
(* Quiescence.                                                             *)
(***************************************************************************)
Quiescent == ~isBatching /\ dirtyEffects = <<>>

\* C39: with computations that create no computations, a pending flush
\* always leads to a state with no flush pending and an empty dirty set,
\* and the flush reaches it after at most one run of each computation, even
\* when a computation writes the cell it reads or two computations write
\* the cells the other reads.
C39_AlwaysQuiesces ==
  /\ isBatching ~> Quiescent
  /\ [](lastCall.op = "flush" =>
          /\ Quiescent
          /\ Len(runLog) <= Len(effects)
          /\ lastCall.fx = Len(effects))

C39_Witness ==
  /\ lastCall.op = "flush"
  /\ Quiescent
  /\ Len(runLog) = 3
  /\ \E e \in Effects : effects[e].body = "toggle" /\ e \in Range(runLog) /\ e \in owed
  /\ \E e \in Effects : effects[e].body = "ping" /\ e \in owed

(***************************************************************************)
(* C40 (as stated): a computation body that throws during a flush does not *)
(* wedge the scheduler.  Every flush, one that throws included, ends with  *)
(* the pending-flush flag reset, the dirty set empty and the execution     *)
(* stack empty; the next value-changing write after a flush that threw     *)
(* schedules a new flush and marks the written cell's subscribers; and     *)
(* that flush runs every one of the written cell's subscribers.            *)
(***************************************************************************)
FlushEndsClean ==
  lastCall'.op = "flush" =>
    /\ ~isBatching'
    /\ dirtyEffects' = <<>>
    /\ effectStack' = <<>>

WriteSchedules ==
  (wedge.phase = "threw" /\ lastCall'.op = "write" /\ lastCall'.v # lastCall'.old) =>
    /\ isBatching'
    /\ Range(subscribers[lastCall'.name]) \subseteq Range(dirtyEffects')

====
